---- MODULE Spec2Model ----
(***************************************************************************)
(* The slide pipeline of App.tsx: the polling scheduler (processQueue),    *)
(* the per-slide stages (processSlideAnalysis, processSlideVisuals,        *)
(* handleGenerateVideo, handleDeepAnalyze), the collection update          *)
(* functions (updateSlideState, handleUpdateSlide), the retry wrapper of   *)
(* geminiService.ts and the stores of storageService.ts and                *)
(* supabaseService.ts.                                                     *)
(*                                                                         *)
(* One step of the model is one run of JavaScript between two suspension   *)
(* points: a timer tick, a DOM event, or the continuation of an awaited    *)
(* external call together with every microtask continuation that follows   *)
(* it (awaits on already settled promises, .finally callbacks).            *)
(*                                                                         *)
(* `slides` is the React state with every queued setSlides updater         *)
(* applied in order; `slidesRef` is slidesRef.current, which the effect of *)
(* App.tsx line 24 sets to the committed state after a render.  Updates    *)
(* queued from a promise continuation or a timer are rendered in a later   *)
(* task (CommitEffects); updates queued in a click handler are rendered,   *)
(* with their effects, before the handler's first await resumes.           *)
(*                                                                         *)
(* The browser runs tasks in the order they were queued.  React queues the *)
(* render when the update is queued, so the answer to an external call     *)
(* started by a job arrives after the render of the updates that job (or   *)
(* an earlier one) queued: a task is `fresh` until that render.  Timer     *)
(* ticks and the answers to older calls may run before it.                 *)
(***************************************************************************)
EXTENDS Integers, Sequences, FiniteSets, Bags, TLC

\* ------------------------------------------------------------- constants
MAX_CONCURRENT == 3
AnalysisRetries == 3
VisualRetries == 2

\* ---------------------------------------------------------------- bounds
\* Pages of the uploaded document.
MaxPages == 4
\* Editor operations the user starts in one run, and the pages of the
\* document they are started on.
MaxUserOps == 1
MaxRetries == 3
\* Lexemes of a response text handed to cleanAndParseJSON.
MaxText == 5
DemoPages == 1
DemoUserOps == 2
EditorPages == 1
\* Pages of the document whose stages are followed answer by answer.
StagePages == 1
\* Pages of the document one page of which the analysis service refuses.
IsolationPages == 3
\* Pages of the document that is left to the scheduler.
ProgressPages == 2
\* Pages of the document some calls of which never return.
StuckPages == 4
\* Slides of the project found in IndexedDB when the application starts.
ReloadPages == 2
\* Pages of the documents uploaded before and after a reset.
ResetPages == 2
\* Steps of the clock in the quiet period of the auto-save (3000 ms).
QuietSteps == 3
\* Pages of the document that is saved while the scheduler works on it.
SnapshotPages == 1

\* ------------------------------------------------------- optional values
None == <<>>
Some(v) == <<v>>

\* A JavaScript object spread {...a, ...b} over records.
Spread(a, b) ==
  [f \in (DOMAIN a) \cup (DOMAIN b) |-> IF f \in DOMAIN b THEN b[f] ELSE a[f]]

\* ------------------------------------------------------------ JSON values
\* A string is held as its text in a one-element sequence, an array as the
\* sequence of its elements; t tells them apart.
JStr(s) == [t |-> "string", v |-> <<s>>]
JArr(s) == [t |-> "array", v |-> s]
EmptyArr == JArr(<<>>)
EmptyRecord == [f \in {} |-> None]

IsArrayField(parsed, f) == f \in DOMAIN parsed /\ parsed[f].t = "array"

\* The records cleanAndParseJSON can hand to a stage: nothing usable, a full
\* answer, and an answer whose list field is not a list.
NominalParsed ==
  [actionTitle |-> JStr("T"), visualPrompt |-> JStr("V"),
   keyTakeaways |-> JArr(<<"p">>)]

ParsedResponses ==
  { EmptyRecord, NominalParsed,
    [actionTitle |-> JStr("T"), keyTakeaways |-> JStr("p")] }

\* The grounding chunks of a response, mapped to citations.
NominalCitations == <<"web">>
CitationLists == { <<>>, NominalCitations }

\* analyzeSlideContent's returned analysis for a parsed response.
AnalysisOf(parsed) ==
  Spread(
    Spread([consultingLayout |-> JStr("editorial-left"),
            colorPalette |-> JArr(<<"#ffffff", "#000000">>),
            mood |-> JStr("Sophisticated")], parsed),
    [keyTakeaways |-> IF IsArrayField(parsed, "keyTakeaways")
                      THEN parsed.keyTakeaways ELSE EmptyArr,
     assetPrompts |-> IF IsArrayField(parsed, "assetPrompts")
                      THEN parsed.assetPrompts ELSE EmptyArr,
     keywords |-> IF IsArrayField(parsed, "keywords")
                  THEN parsed.keywords ELSE EmptyArr])

\* deepAnalyzeSlide's returned analysis for a parsed response.
DeepAnalysisOf(parsed) ==
  Spread(
    Spread([consultingLayout |-> JStr("editorial-left")], parsed),
    [keyTakeaways |-> IF IsArrayField(parsed, "keyTakeaways")
                      THEN parsed.keyTakeaways ELSE EmptyArr])

\* ------------------------------------------------------------- withRetry
\* Errors an attempt can raise: E403 is classified critical, the others not;
\* TypeError is the exception of the attempt's own code.
Errors == {"E403", "E503", "TypeError"}
NeverCritical(e) == FALSE

isCriticalError(e) == e = "E403"

AttemptOutcomes == {"ok"} \cup Errors

\* withRetry(fn, retries) against the outcomes of the successive attempts
\* outs[1], outs[2], ...: the result, the error raised, the number of calls
\* of fn and the delays waited, attempt i (from 0) being outs[i + 1].
RECURSIVE RetryLoop(_, _, _, _, _)
RetryLoop(outs, retries, i, lastError, delays) ==
  IF i >= retries
  THEN [ok |-> FALSE, error |-> lastError, calls |-> i, delays |-> delays]
  ELSE IF outs[i + 1] = "ok"
       THEN [ok |-> TRUE, error |-> None, calls |-> i + 1, delays |-> delays]
       ELSE IF isCriticalError(outs[i + 1])
            THEN [ok |-> FALSE, error |-> Some(outs[i + 1]), calls |-> i + 1,
                  delays |-> delays]
            ELSE RetryLoop(outs, retries, i + 1, Some(outs[i + 1]),
                           Append(delays, 1000 * 2 ^ i))

\* A wrapper that raises the error of the first attempt.
RaisesFirst(outs, retries) ==
  LET r == RetryLoop(outs, retries, 0, None, <<>>) IN
    IF r.ok THEN r ELSE [r EXCEPT !.error = Some(outs[1])]

withRetry(outs, retries) == RetryLoop(outs, retries, 0, None, <<>>)

AttemptSeqs(retries) == [1..retries -> AttemptOutcomes]

\* What a caller of a wrapped call observes: success, or the raised error.
CallResults(retries) ==
  { [ok |-> withRetry(o, retries).ok, error |-> withRetry(o, retries).error] :
      o \in AttemptSeqs(retries) }

AnalysisCallResults == CallResults(AnalysisRetries)
VisualCallResults == CallResults(VisualRetries)

\* ----------------------------------------------------- cleanAndParseJSON
\* A response text is the sequence of its lexemes: the punctuation of JSON,
\* "k" a member's key with its colon, "1" an unsigned integer, "s" a string
\* literal, "null", "J" the fence opening ```json, "F" the fence ```, and "w"
\* a bare word.  Lexemes follow each other without blanks except between two
\* literals, and the keys of one object are different from each other.
Lexemes == {"{", "}", "[", "]", ",", "k", "1", "s", "null", "J", "F", "w"}

Min(a, b) == IF a < b THEN a ELSE b
Max(a, b) == IF a > b THEN a ELSE b

\* String.prototype.substring(a, b) with positions counted from 0: the
\* arguments are clamped to the text and swapped when a > b.
Substring(s, a, b) ==
  LET x == Max(0, Min(a, Len(s)))
      y == Max(0, Min(b, Len(s)))
  IN SubSeq(s, Min(x, y) + 1, Max(x, y))

\* indexOf and lastIndexOf of a lexeme, from 0; -1 when there is none.
IndexOf(s, x) ==
  IF \E i \in 1..Len(s) : s[i] = x
  THEN (CHOOSE i \in 1..Len(s) : s[i] = x /\ \A j \in 1..(i - 1) : s[j] # x) - 1
  ELSE -1

LastIndexOf(s, x) ==
  IF \E i \in 1..Len(s) : s[i] = x
  THEN (CHOOSE i \in 1..Len(s) :
          s[i] = x /\ \A j \in (i + 1)..Len(s) : s[j] # x) - 1
  ELSE -1

\* text.replace(/```json\s*([\s\S]*?)\s*```/gi, '$1'): every ```json up to
\* the next ``` is replaced by what is between them; when that next ``` is
\* the head of another ```json, its word json stays behind.
RECURSIVE StripJsonFences(_)
StripJsonFences(s) ==
  LET i == IndexOf(s, "J") + 1
      closers == { j \in (i + 1)..Len(s) : s[j] \in {"F", "J"} }
  IN IF i = 0 \/ closers = {}
     THEN s
     ELSE LET j == CHOOSE c \in closers : \A d \in closers : c <= d IN
            SubSeq(s, 1, i - 1) \o SubSeq(s, i + 1, j - 1) \o
            (IF s[j] = "J" THEN <<"w">> ELSE <<>>) \o
            StripJsonFences(SubSeq(s, j + 1, Len(s)))

\* cleaned.replace(/^```\s*([\s\S]*?)\s*```$/g, '$1'): a text that begins
\* and ends with ``` loses both.
StripOuterFence(s) ==
  IF Len(s) >= 2 /\ s[1] = "F" /\ s[Len(s)] = "F"
  THEN SubSeq(s, 2, Len(s) - 1)
  ELSE s

\* cleaned.replace(/\[\d+\]/g, ''): every [ digits ] is removed, scanning
\* from the left.
RECURSIVE StripCitations(_)
StripCitations(s) ==
  IF Len(s) < 3
  THEN s
  ELSE IF s[1] = "[" /\ s[2] = "1" /\ s[3] = "]"
       THEN StripCitations(SubSeq(s, 4, Len(s)))
       ELSE <<s[1]>> \o StripCitations(Tail(s))

\* The cut from the first { to the last }, made when both are there.
BraceSlice(s) ==
  LET firstBrace == IndexOf(s, "{")
      lastBrace == LastIndexOf(s, "}")
  IN IF firstBrace # -1 /\ lastBrace # -1
     THEN Substring(s, firstBrace, lastBrace + 1)
     ELSE s

\* The grammar of JSON: the position of the last lexeme of the value, of the
\* members or of the elements that begin at position i, 0 when there is none.
RECURSIVE ValueEnd(_, _), MembersEnd(_, _), ElementsEnd(_, _)
ValueEnd(s, i) ==
  IF i > Len(s)
  THEN 0
  ELSE IF s[i] \in {"1", "s", "null"}
       THEN i
       ELSE IF s[i] = "{"
            THEN IF i + 1 <= Len(s) /\ s[i + 1] = "}"
                 THEN i + 1
                 ELSE MembersEnd(s, i + 1)
            ELSE IF s[i] = "["
                 THEN IF i + 1 <= Len(s) /\ s[i + 1] = "]"
                      THEN i + 1
                      ELSE ElementsEnd(s, i + 1)
                 ELSE 0

MembersEnd(s, i) ==
  IF i > Len(s) \/ s[i] # "k"
  THEN 0
  ELSE LET e == ValueEnd(s, i + 1) IN
         IF e = 0 \/ e + 1 > Len(s)
         THEN 0
         ELSE IF s[e + 1] = "}"
              THEN e + 1
              ELSE IF s[e + 1] = "," THEN MembersEnd(s, e + 2) ELSE 0

ElementsEnd(s, i) ==
  LET e == ValueEnd(s, i) IN
    IF e = 0 \/ e + 1 > Len(s)
    THEN 0
    ELSE IF s[e + 1] = "]"
         THEN e + 1
         ELSE IF s[e + 1] = "," THEN ElementsEnd(s, e + 2) ELSE 0

IsJSON(s) == Len(s) >= 1 /\ ValueEnd(s, 1) = Len(s)

\* The value a JSON text denotes: its kind and its lexemes.
ValueOf(s) ==
  [kind |-> IF s[1] = "{" THEN "object"
            ELSE IF s[1] = "[" THEN "array"
            ELSE IF s[1] = "1" THEN "number"
            ELSE IF s[1] = "s" THEN "string" ELSE "null",
   text |-> s]

\* JSON.parse(text): the value, or None for a SyntaxError.
JSONParse(s) == IF IsJSON(s) THEN Some(ValueOf(s)) ELSE None

\* The literal {}.
EmptyObject == ValueOf(<<"{", "}">>)

\* fixed = cleaned.replace(/,\s*([}\]])/g, '$1'): a comma right before a
\* closing brace or bracket is removed, scanning from the left.
RECURSIVE RemoveTrailingCommas(_)
RemoveTrailingCommas(s) ==
  IF Len(s) < 2
  THEN s
  ELSE IF s[1] = "," /\ s[2] \in {"}", "]"}
       THEN <<s[2]>> \o RemoveTrailingCommas(SubSeq(s, 3, Len(s)))
       ELSE <<s[1]>> \o RemoveTrailingCommas(Tail(s))

Count(s, x) == Cardinality({ i \in 1..Len(s) : s[i] = x })

\* fixed += '}'.repeat(Math.max(0, openBraces - closeBraces)).
CloseBraces(s) ==
  s \o [i \in 1..Max(0, Count(s, "{") - Count(s, "}")) |-> "}"]

\* The text the first JSON.parse is given.
Cleaned(text) == BraceSlice(StripCitations(StripOuterFence(StripJsonFences(text))))

\* The text the second JSON.parse is given.
Fixed(text) == CloseBraces(RemoveTrailingCommas(Cleaned(text)))

\* cleanAndParseJSON(text); text is None for undefined or null.
cleanAndParseJSON(text) ==
  IF text = None \/ text = Some(<<>>)
  THEN EmptyObject
  ELSE IF JSONParse(Cleaned(text[1])) # None
       THEN JSONParse(Cleaned(text[1]))[1]
       ELSE IF JSONParse(Fixed(text[1])) # None
            THEN JSONParse(Fixed(text[1]))[1]
            ELSE EmptyObject

\* How an attempt of analyzeSlideContent or deepAnalyzeSlide ends when the
\* request returned the text: reading parsed.keyTakeaways raises when the
\* parsed value is null.
AttemptOn(text) ==
  IF cleanAndParseJSON(text).kind = "null" THEN "TypeError" ELSE "ok"

\* What the caller of analyzeSlideContent or deepAnalyzeSlide sees when every
\* request returns the text.
AnalysisOn(text) ==
  LET r == withRetry([k \in 1..AnalysisRetries |-> AttemptOn(text)],
                     AnalysisRetries)
  IN [ok |-> r.ok, error |-> r.error]

\* ------------------------------------------------------------------ state
VARIABLES
  mode,                \* AppMode held in React state
  polling,             \* the setInterval of the scheduler effect is live
  slides,              \* React state, queued updaters applied in order
  slidesRef,           \* slidesRef.current
  processingSlideIds,  \* ids of the slides being advanced by the scheduler
  activeRequests,      \* the concurrency counter
  tasks,               \* bag of the async functions suspended at an await
  store,               \* the 'slides' object store of IndexedDB, by id
  nextId,              \* ids handed out so far (crypto.randomUUID is fresh)
  userOps,             \* editor operations started so far
  call,                \* a call of withRetry or of cleanAndParseJSON taken
                       \* by itself, or None
  screen,              \* the mode of the last render
  autosave             \* the auto-save effect: its timeouts, isSaving,
                       \* lastSavedAt, the deck in the remote table, the
                       \* project record of IndexedDB, and the
                       \* time since the rendered collection last changed

vars == <<mode, polling, slides, slidesRef, processingSlideIds, activeRequests,
          tasks, store, nextId, userOps, call, autosave, screen>>

Stages == {"pending", "analyzing", "analyzed", "generating_image",
           "generating_video", "editing_area", "complete", "error"}

\* handleFileUpload's initial slide for a page image.
NewSlide(id, img) ==
  [id |-> id, originalImage |-> img, status |-> "pending", analysis |-> None,
   groundingSources |-> None, error |-> None, enhancedImage |-> None,
   videoUrl |-> None, transitionVideoUrl |-> None, generatedAssets |-> None]

\* The placeholder image createDemoDeck draws for a slide.
Placeholder == "placeholder"

\* The analysis createDemoDeck writes into a slide.
DemoAnalysis ==
  [actionTitle |-> JStr("D"), subtitle |-> JStr("S"),
   keyTakeaways |-> JArr(<<"d">>), script |-> JStr("This slide discusses D"),
   visualPrompt |-> JStr("Abstract cinematic representation of D"),
   assetPrompts |-> EmptyArr, keywords |-> JArr(<<"D">>),
   consultingLayout |-> JStr("minimal-centered"),
   colorPalette |-> JArr(<<"#ffffff", "#000000">>),
   mood |-> JStr("Futuristic")]

\* createDemoDeck's slide i; its id `demo-i` is held as -i, apart from the
\* ids of uploaded pages.
DemoSlide(i) ==
  [NewSlide(-i, Placeholder) EXCEPT !.status = "complete",
                                    !.analysis = Some(DemoAnalysis)]

\* Array.prototype.findIndex(s => s.id === id), 1-based; 0 when there is none.
FindIndex(sl, id) ==
  IF \E i \in 1..Len(sl) : sl[i].id = id
  THEN CHOOSE i \in 1..Len(sl) :
         sl[i].id = id /\ \A j \in 1..(i - 1) : sl[j].id # id
  ELSE 0

\* The setSlides updater of updateSlideState: by position.
UpdateSlideState(sl, index, updates) ==
  IF index \in 1..Len(sl)
  THEN [sl EXCEPT ![index] = Spread(@, updates)]
  ELSE sl

\* An updater that builds the slide anew from the updates.
ReplaceSlideById(sl, id, updates) ==
  IF FindIndex(sl, id) = 0
  THEN sl
  ELSE [sl EXCEPT ![FindIndex(sl, id)] =
          Spread(NewSlide(id, @.originalImage), updates)]

\* The setSlides updater of handleUpdateSlide: by id.
UpdateSlideById(sl, id, updates) ==
  IF FindIndex(sl, id) = 0
  THEN sl
  ELSE [sl EXCEPT ![FindIndex(sl, id)] = Spread(@, updates)]

\* The record handleUpdateSlide hands to updatePersistentSlide, if any.
CheckpointOf(ref, id, updates) ==
  IF FindIndex(ref, id) = 0
  THEN None
  ELSE Some(Spread(ref[FindIndex(ref, id)], updates))

\* ------------------------------------------------------------- scheduler
\* A scheduler that only starts the pipeline of a slide.
OnlyPending(s, inFlight) == s.status = "pending" /\ s.id \notin inFlight

IgnoreInFlight(s, inFlight) == s.status = "pending" \/ s.status = "analyzed"

\* The predicate of processQueue's find.
IsEligible(s, inFlight) ==
  (s.status = "pending" \/ s.status = "analyzed") /\ s.id \notin inFlight

LastTaskIndex(currentSlides, inFlight) ==
  IF \E i \in 1..Len(currentSlides) : IsEligible(currentSlides[i], inFlight)
  THEN CHOOSE i \in 1..Len(currentSlides) :
         /\ IsEligible(currentSlides[i], inFlight)
         /\ \A j \in (i + 1)..Len(currentSlides) :
              ~IsEligible(currentSlides[j], inFlight)
  ELSE 0

\* Position of nextTaskSlide in currentSlides; 0 when find returns undefined.
NextTaskIndex(currentSlides, inFlight) ==
  IF \E i \in 1..Len(currentSlides) : IsEligible(currentSlides[i], inFlight)
  THEN CHOOSE i \in 1..Len(currentSlides) :
         /\ IsEligible(currentSlides[i], inFlight)
         /\ \A j \in 1..(i - 1) : ~IsEligible(currentSlides[j], inFlight)
  ELSE 0

\* A scheduler that runs one advancement at a time.
OneAtATime(active) == ~(active >= 1)

NoCap(active) == TRUE

\* processQueue's first guard.
HasFreeSlot(active) == ~(active >= MAX_CONCURRENT)

\* The in-flight bookkeeping as one value.
Sem == [ids |-> processingSlideIds, active |-> activeRequests]

\* processingSlideIds.add(id); activeRequests++
Acquire(sem, id) == [ids |-> sem.ids \cup {id}, active |-> sem.active + 1]

KeepCount(sem, id) == [ids |-> sem.ids \ {id}, active |-> sem.active]

\* The .finally callback: processingSlideIds.delete(id); activeRequests--
Release(sem, id) == [ids |-> sem.ids \ {id}, active |-> sem.active - 1]

SetSem(sem) ==
  /\ processingSlideIds' = sem.ids
  /\ activeRequests' = sem.active

Task(kind, id, index, pc) ==
  [kind |-> kind, id |-> id, index |-> index, pc |-> pc, url |-> None,
   put |-> None, arg |-> "none", snap |-> None, fresh |-> TRUE]

\* The external call t waits for has been started before the last render.
Answered(t) == ~t.fresh

\* Every pending call is older than the render that just happened.
Aged(bag) ==
  LET old(t) == [t EXCEPT !.fresh = FALSE]
      new(t) == [t EXCEPT !.fresh = TRUE]
      count(u) == IF u \in DOMAIN bag THEN bag[u] ELSE 0
  IN [u \in { old(t) : t \in BagToSet(bag) } |-> count(u) + count(new(u))]

One(t) == SetToBag({t})

IsScheduled(t) == t.kind \in {"analysis", "visuals"}

TypeOK ==
  /\ mode \in {"SETUP", "UPLOAD", "PROCESSING", "EDITOR", "PRESENT"}
  /\ polling \in BOOLEAN
  /\ screen \in {"SETUP", "UPLOAD", "PROCESSING", "EDITOR", "PRESENT"}
  /\ polling = (screen = "EDITOR")
  /\ \A i \in 1..Len(slides) : slides[i].status \in Stages
  /\ \A i \in 1..Len(slidesRef) : slidesRef[i].status \in Stages
  /\ activeRequests \in Int
  /\ IsABag(tasks)

\* The application as constructed.
Mounted ==
  /\ mode = "SETUP"
  /\ polling = FALSE
  /\ slides = <<>>
  /\ slidesRef = <<>>
  /\ processingSlideIds = {}
  /\ activeRequests = 0
  /\ tasks = EmptyBag
  /\ store = EmptyRecord
  /\ nextId = 1
  /\ userOps = 0
  /\ screen = "SETUP"
  /\ autosave = [timers |-> {}, isSaving |-> FALSE, lastSavedAt |-> None,
                 remote |-> None, project |-> None, sinceChange |-> 0]

Init == Mounted /\ call = None

\* ------------------------------------------------- steps shared by stages
Err(prefix, e) == [prefix |-> prefix, msg |-> e]

\* The async function t returns or raises out of its last await.  For a stage
\* the scheduler dispatched, the .finally callback runs in the same job.
Finish(t) ==
  /\ tasks' = tasks (-) One(t)
  /\ IF IsScheduled(t)
     THEN SetSem(Release(Sem, t.id))
     ELSE UNCHANGED <<processingSlideIds, activeRequests>>

\* The async function t suspends at its next await, as t2.
Continue(t, t2) ==
  /\ tasks' = (tasks (-) One(t)) (+) One([t2 EXCEPT !.fresh = TRUE])
  /\ UNCHANGED <<processingSlideIds, activeRequests>>

\* The code after `await handleUpdateSlide(...)`: processSlideVisuals goes on
\* to `await logTask(...)`, the others return.
Resolved(t) ==
  IF t.kind = "visuals"
  THEN Continue(t, [t EXCEPT !.pc = "log", !.put = None])
  ELSE Finish(t)

\* `handleUpdateSlide(id, updates)` with no await in front of it: the function
\* returns while the checkpoint is still to be issued.
DetachUpdate(t, updates) ==
  /\ slides' = UpdateSlideById(slides, t.id, updates)
  /\ tasks' = (tasks (-) One(t)) (+)
        (IF CheckpointOf(slidesRef, t.id, updates) # None
         THEN One([Task("put", t.id, t.index, "checkpoint") EXCEPT
                     !.put = CheckpointOf(slidesRef, t.id, updates)])
         ELSE EmptyBag)
  /\ IF IsScheduled(t)
     THEN SetSem(Release(Sem, t.id))
     ELSE UNCHANGED <<processingSlideIds, activeRequests>>

\* `await handleUpdateSlide(id, updates)`: the updater is queued, and when
\* slidesRef holds the id, updatePersistentSlide is awaited.
AwaitUpdate(t, updates) ==
  /\ slides' = UpdateSlideById(slides, t.id, updates)
  /\ IF CheckpointOf(slidesRef, t.id, updates) # None
     THEN Continue(t, [t EXCEPT !.pc = "checkpoint",
                                !.put = CheckpointOf(slidesRef, t.id, updates)])
     ELSE Resolved(t)

\* `handleUpdateSlide(id, updates)` not awaited, as the last statement of t:
\* the updater is queued, the checkpoint write goes on by itself, t returns.
ForgetUpdate(t, updates) ==
  /\ slides' = UpdateSlideById(slides, t.id, updates)
  /\ tasks' = (tasks (-) One(t)) (+)
        (IF CheckpointOf(slidesRef, t.id, updates) # None
         THEN One([Task("put", t.id, t.index, "checkpoint") EXCEPT
                     !.put = CheckpointOf(slidesRef, t.id, updates)])
         ELSE EmptyBag)
  /\ UNCHANGED <<processingSlideIds, activeRequests>>

SpoilAll(t, e) ==
  /\ slides' = [i \in 1..Len(slides) |->
                  Spread(slides[i], [status |-> "error", error |-> Some(Err("", e))])]
  /\ Finish(t)

\* The catch block of processSlideAnalysis and processSlideVisuals.
CatchToError(t, e) ==
  /\ slides' = UpdateSlideState(slides, t.index,
                                [status |-> "error", error |-> Some(Err("", e))])
  /\ Finish(t)

CatchVideoToError(t, e) ==
  ForgetUpdate(t, [status |-> "error", error |-> Some(Err("Veo fail: ", e))])

\* The catch block of handleGenerateVideo.
CatchVideo(t, e) ==
  ForgetUpdate(t, [status |-> "complete", error |-> Some(Err("Veo fail: ", e))])

\* ----------------------------------------------------------- processQueue
StartSilently(idx, id) ==
  /\ UNCHANGED slides
  /\ tasks' = tasks (+) One(Task("analysis", id, idx, "analyze"))
  /\ SetSem(Acquire(Sem, id))

\* processSlideAnalysis(idx) up to its first suspension.
StartAnalysis(idx, id) ==
  /\ slides' = UpdateSlideState(slides, idx, [status |-> "analyzing"])
  /\ tasks' = tasks (+) One(Task("analysis", id, idx, "analyze"))
  /\ SetSem(Acquire(Sem, id))

\* processSlideVisuals(idx) up to its first suspension; without an analysis it
\* returns at once and the .finally callback undoes the bookkeeping.
StartVisuals(idx, id) ==
  IF slidesRef[idx].analysis = None
  THEN /\ SetSem(Release(Acquire(Sem, id), id))
       /\ UNCHANGED <<slides, tasks>>
  ELSE /\ slides' = UpdateSlideState(slides, idx, [status |-> "generating_image"])
       /\ tasks' = tasks (+) One(Task("visuals", id, idx, "visual"))
       /\ SetSem(Acquire(Sem, id))

\* One run of processQueue on the interval timer.
Tick ==
  /\ polling
  /\ LET idx == NextTaskIndex(slidesRef, processingSlideIds) IN
       IF HasFreeSlot(activeRequests) /\ idx # 0
       THEN IF slidesRef[idx].status = "pending"
            THEN StartAnalysis(idx, slidesRef[idx].id)
            ELSE IF slidesRef[idx].status = "analyzed"
                 THEN StartVisuals(idx, slidesRef[idx].id)
                 ELSE /\ SetSem(Acquire(Sem, slidesRef[idx].id))
                      /\ UNCHANGED <<slides, tasks>>
       ELSE UNCHANGED <<slides, tasks, processingSlideIds, activeRequests>>
  /\ UNCHANGED <<screen, autosave, call, mode, polling, slidesRef, store, nextId, userOps>>

\* ---------------------------------------------------- processSlideAnalysis
\* analyzeSlideContent returns (r.ok) or raises r.error.
AnalysisEnds(t, r, parsed, citations) ==
  /\ t.kind = "analysis" /\ t.pc = "analyze" /\ Answered(t)
  /\ IF r.ok
     THEN AwaitUpdate(t, [status |-> "analyzed",
                          analysis |-> Some(AnalysisOf(parsed)),
                          groundingSources |-> Some(citations)])
     ELSE CatchToError(t, r.error[1])
  /\ UNCHANGED <<screen, autosave, call, mode, polling, slidesRef, store, nextId, userOps>>

\* ----------------------------------------------------- processSlideVisuals
LocalImage == "data:image/png"
PublicImage == "https://media/bg.png"
LocalVideo == "blob:video"
PublicVideo == "https://media/video.mp4"

\* generateSlideVisual returns bgUrl (r.ok) or raises r.error.
VisualEnds(t, r, bgUrl) ==
  /\ t.kind = "visuals" /\ t.pc = "visual" /\ Answered(t)
  /\ IF r.ok
     THEN IF bgUrl # None
          THEN /\ Continue(t, [t EXCEPT !.pc = "upload", !.url = bgUrl])
               /\ UNCHANGED slides
          ELSE AwaitUpdate(t, [status |-> "complete", enhancedImage |-> bgUrl])
     ELSE CatchToError(t, r.error[1])
  /\ UNCHANGED <<screen, autosave, call, mode, polling, slidesRef, store, nextId, userOps>>

\* ------------------------------------------------------------ uploadMedia
\* How `await uploadMedia(bucket, path, data)` ends: the public URL; null (no
\* client, an upload error, or an exception inside the try); or an exception
\* of fetch(data) / res.blob(), which run before the try.
UploadOutcomes == {"public", "null", "raise"}

UploadEnds(t, outcome) ==
  /\ t.pc = "upload" /\ Answered(t)
  /\ IF t.kind = "visuals"
     THEN IF outcome = "raise"
          THEN CatchToError(t, "EFETCH")
          ELSE AwaitUpdate(t, [status |-> "complete",
                 enhancedImage |-> IF outcome = "public"
                                   THEN Some(PublicImage) ELSE t.url])
     ELSE IF outcome = "raise"
          THEN CatchVideo(t, "EFETCH")
          ELSE LET finalVideo == IF outcome = "public"
                                 THEN Some(PublicVideo) ELSE t.url IN
               IF t.arg = "intro"
               THEN AwaitUpdate(t, [status |-> "complete",
                                    transitionVideoUrl |-> finalVideo])
               ELSE AwaitUpdate(t, [status |-> "complete",
                                    videoUrl |-> finalVideo])
  /\ UNCHANGED <<screen, autosave, call, mode, polling, slidesRef, store, nextId, userOps>>

\* ------------------------------------------------- updatePersistentSlide
\* How the awaited updatePersistentSlide(slide) ends: the put committed; the
\* database could not be opened (caught and logged, nothing written); or the
\* transaction's error event rejected the returned promise.
CheckpointOutcomes == {"written", "dbfail", "txerror"}

Put(st, slide) == Spread(st, [k \in {slide.id} |-> slide])

CheckpointEnds(t, outcome) ==
  /\ t.pc = "checkpoint" /\ Answered(t)
  /\ store' = IF outcome = "written" THEN Put(store, t.put[1]) ELSE store
  /\ IF outcome = "txerror"
     THEN IF IsScheduled(t)
          THEN CatchToError(t, "EIDB")
          ELSE IF t.kind = "video"
               THEN CatchVideo(t, "EIDB")
               ELSE Finish(t) /\ UNCHANGED slides
     ELSE Resolved(t) /\ UNCHANGED slides
  /\ UNCHANGED <<screen, autosave, call, mode, polling, slidesRef, nextId, userOps>>

\* `await logTask(...)` of processSlideVisuals ends; logTask catches its errors.
LogEnds(t) ==
  /\ t.pc = "log" /\ Answered(t)
  /\ Finish(t)
  /\ UNCHANGED <<screen, autosave, call, mode, polling, slides, slidesRef, store, nextId, userOps>>

\* -------------------------------------------------------------- auto-save
\* The effect's cleanup keeps the timeout it had set.
KeepTimeout(timers) == timers

\* The effect's cleanup: clearTimeout(timeout).
ClearTimeout(timers) == {}

\* The auto-save effect, run by a commit in which slides or mode changed: the
\* cleanup of the previous run, then a timeout that holds the slides of this
\* render.  `changed` tells whether the collection changed in the commit.
AutoSaveEffect(as, sl, md, changed) ==
  LET quiet == IF changed THEN 0 ELSE as.sinceChange IN
    IF Len(sl) = 0 \/ md = "SETUP"
    THEN [as EXCEPT !.timers = ClearTimeout(as.timers), !.sinceChange = quiet]
    ELSE [as EXCEPT !.timers = ClearTimeout(as.timers) \cup
                                 {[left |-> QuietSteps, slides |-> sl]},
                    !.isSaving = TRUE,
                    !.sinceChange = quiet]

\* One step of the clock.
TimePasses ==
  /\ \/ \E tm \in autosave.timers : tm.left > 0
     \/ autosave.sinceChange < QuietSteps
  /\ autosave' =
       [autosave EXCEPT
          !.timers = { [tm EXCEPT !.left = Max(0, @ - 1)] : tm \in @ },
          !.sinceChange = Min(QuietSteps, @ + 1)]
  /\ UNCHANGED <<screen, call, mode, polling, slides, slidesRef, processingSlideIds,
                 activeRequests, tasks, store, nextId, userOps>>

\* A timeout of the effect fires: the callback up to `await saveProject(slides)`.
SnapshotStart ==
  \E tm \in autosave.timers :
    /\ tm.left = 0
    /\ autosave' = [autosave EXCEPT !.timers = @ \ {tm}]
    /\ tasks' = tasks (+)
         One([Task("snapshot", 0, 0, "save") EXCEPT !.snap = Some(tm.slides)])
    /\ UNCHANGED <<screen, call, mode, polling, slides, slidesRef, processingSlideIds,
                   activeRequests, store, nextId, userOps>>

\* slides.forEach(s => slideStore.put(s))
PutAll(st, sl) ==
  Spread(st, [k \in { sl[i].id : i \in 1..Len(sl) } |-> sl[FindIndex(sl, k)]])

\* `await saveProject(slides)` ends like updatePersistentSlide: written; the
\* database could not be opened (logged); or the transaction's error event
\* rejected the promise, which the callback catches.
SaveProjectEnds(t, outcome) ==
  /\ t.kind = "snapshot" /\ t.pc = "save" /\ Answered(t)
  /\ store' = IF outcome = "written" THEN PutAll(store, t.snap[1]) ELSE store
  /\ IF outcome = "txerror"
     THEN /\ Finish(t)
          /\ autosave' = [autosave EXCEPT !.isSaving = FALSE]
     ELSE /\ Continue(t, [t EXCEPT !.pc = "persist"])
          /\ autosave' = IF outcome = "written"
                         THEN [autosave EXCEPT !.project = t.snap]
                         ELSE autosave
  /\ UNCHANGED <<screen, call, mode, polling, slides, slidesRef, nextId, userOps>>

\* How persistDeck ends: the deck is upserted, or it is not (no client, an
\* error of the upsert, an exception); it never raises.
PersistOutcomes == {"upserted", "skipped"}

\* `await persistDeck(slides)` ends, and the callback with it.
PersistDeckEnds(t, outcome) ==
  /\ t.kind = "snapshot" /\ t.pc = "persist" /\ Answered(t)
  /\ Finish(t)
  /\ autosave' = [autosave EXCEPT
                    !.remote = IF outcome = "upserted" THEN t.snap ELSE @,
                    !.isSaving = FALSE,
                    !.lastSavedAt = Some("now")]
  /\ UNCHANGED <<screen, call, mode, polling, slides, slidesRef, store, nextId, userOps>>

\* ----------------------------------------------------- editor operations
\* The operations the user may start: on the demo deck, which needs no
\* processing, one more than on an uploaded document.
OpsBound ==
  IF \E i \in 1..Len(slidesRef) : slidesRef[i].originalImage = Placeholder
  THEN DemoUserOps
  ELSE MaxUserOps

\* The editor is on screen and shows the slides of the last commit.
EditorShows(i) ==
  /\ mode = "EDITOR" /\ polling
  /\ i \in 1..Len(slidesRef)
  /\ userOps < OpsBound

\* A setSlides of a click handler: queued like any other, and rendered (with
\* the slidesRef effect) before the handler's continuation runs.
ClickUpdate(index, updates) ==
  /\ slides' = UpdateSlideState(slides, index, updates)
  /\ slidesRef' = UpdateSlideState(slidesRef, index, updates)
  /\ autosave' = AutoSaveEffect(autosave, slidesRef', mode, TRUE)

VideoTypes == {"background", "intro"}

\* handleGenerateVideo(id, prompt, type) up to its first external call; the
\* button is disabled while the slide shows generating_video.
VideoStart(i, type) ==
  /\ EditorShows(i)
  /\ slidesRef[i].status # "generating_video"
  /\ LET id == slidesRef[i].id
         index == FindIndex(slidesRef, id) IN
       /\ ClickUpdate(index, [status |-> "generating_video"])
       /\ tasks' = tasks (+)
            One([Task("video", id, index, "video") EXCEPT !.arg = type])
  /\ userOps' = userOps + 1
  /\ UNCHANGED <<screen, call, mode, polling, processingSlideIds, activeRequests, store, nextId>>

\* How generateVideoFromImage ends: a blob URL, undefined, or an exception.
VideoOutcomes == {"url", "absent", "raise"}

\* generateVideoFromImage against the outcomes of the successive attempts:
\* it makes its requests once, outside withRetry, and rethrows what they raise.
VideoCallOutcomes(outs) ==
  IF outs[1] = "ok" THEN {"url", "absent"} ELSE {"raise"}

VideoEnds(t, outcome) ==
  /\ t.kind = "video" /\ t.pc = "video" /\ Answered(t)
  /\ IF outcome = "raise"
     THEN CatchVideo(t, "EVEO")
     ELSE IF outcome = "url"
          THEN /\ Continue(t, [t EXCEPT !.pc = "upload", !.url = Some(LocalVideo)])
               /\ UNCHANGED slides
          ELSE IF t.arg = "intro"
               THEN AwaitUpdate(t, [status |-> "complete",
                                    transitionVideoUrl |-> None])
               ELSE AwaitUpdate(t, [status |-> "complete", videoUrl |-> None])
  /\ UNCHANGED <<screen, autosave, call, mode, polling, slidesRef, store, nextId, userOps>>

\* handleDeepAnalyze(id) up to its external call; the button is disabled while
\* the slide shows analyzing.
DeepStart(i) ==
  /\ EditorShows(i)
  /\ slidesRef[i].status # "analyzing"
  /\ LET id == slidesRef[i].id
         index == FindIndex(slidesRef, id) IN
       /\ ClickUpdate(index, [status |-> "analyzing"])
       /\ tasks' = tasks (+) One(Task("deep", id, index, "deep"))
  /\ userOps' = userOps + 1
  /\ UNCHANGED <<screen, call, mode, polling, processingSlideIds, activeRequests, store, nextId>>

\* deepAnalyzeSlide returns (r.ok) or raises.
DeepEnds(t, r, parsed) ==
  /\ t.kind = "deep" /\ t.pc = "deep" /\ Answered(t)
  /\ IF r.ok
     THEN ForgetUpdate(t, [status |-> "analyzed",
                           analysis |-> Some(DeepAnalysisOf(parsed))])
     ELSE ForgetUpdate(t, [status |-> "complete",
                           error |-> Some(Err("Deep analysis failed", ""))])
  /\ UNCHANGED <<screen, autosave, call, mode, polling, slidesRef, store, nextId, userOps>>

\* What performAreaEdit can return: cleanAndParseJSON of the model's answer,
\* which is asked for the changed fields only.
AreaResponses ==
  { EmptyRecord,
    [actionTitle |-> JStr("X")],
    [keyTakeaways |-> JStr("q")] }

\* onEditArea(id, rect, prompt) up to `await performAreaEdit(...)`: the slide
\* is read from slidesRef before the stage is set.
AreaStart(i) ==
  /\ EditorShows(i)
  /\ LET id == slidesRef[i].id
         index == FindIndex(slidesRef, id) IN
       /\ ClickUpdate(index, [status |-> "editing_area"])
       /\ tasks' = tasks (+)
            One([Task("area", id, index, "edit") EXCEPT
                   !.snap = Some(slidesRef[index])])
  /\ userOps' = userOps + 1
  /\ UNCHANGED <<screen, call, mode, polling, processingSlideIds, activeRequests, store, nextId>>

\* The analysis onEditArea writes when performAreaEdit returned updates.
AreaMerge(slide, updates) == Spread(slide.analysis[1], updates)

\* performAreaEdit returns updates (r.ok) or raises; onEditArea has no catch.
AreaEnds(t, r, updates) ==
  /\ t.kind = "area" /\ t.pc = "edit" /\ Answered(t)
  /\ IF r.ok /\ t.snap[1].analysis # None
     THEN ForgetUpdate(t, [analysis |-> Some(AreaMerge(t.snap[1], updates)),
                           status |-> "complete"])
     ELSE Finish(t) /\ UNCHANGED slides
  /\ UNCHANGED <<screen, autosave, call, mode, polling, slidesRef, store, nextId, userOps>>

\* --------------------------------------------------- reset and preview
\* The render of a click's updates, with the effects of its commit.
Rendered(md) ==
  /\ slidesRef' = slides
  /\ polling' = (md = "EDITOR")
  /\ screen' = md
  /\ tasks' = Aged(tasks)
  /\ autosave' = AutoSaveEffect(autosave, slides, md, slidesRef # slides)

\* onPlay.
Play ==
  /\ mode = "EDITOR" /\ polling
  /\ mode' = "PRESENT"
  /\ Rendered("PRESENT")
  /\ UNCHANGED <<call, slides, processingSlideIds, activeRequests, store, nextId,
                 userOps>>

\* The Player's onExit.
ExitPlayer ==
  /\ mode = "PRESENT" /\ screen = "PRESENT"
  /\ mode' = "EDITOR"
  /\ Rendered("EDITOR")
  /\ UNCHANGED <<call, slides, processingSlideIds, activeRequests, store, nextId,
                 userOps>>

\* The editor's handleReset, confirmed, up to `await clearProject()`.
ResetStart ==
  /\ mode = "EDITOR" /\ polling
  /\ userOps < OpsBound
  /\ tasks' = tasks (+) One(Task("reset", 0, 0, "clear"))
  /\ userOps' = userOps + 1
  /\ UNCHANGED <<screen, autosave, call, mode, polling, slides, slidesRef,
                 processingSlideIds, activeRequests, store, nextId>>

\* clearProject ends like the other transactions; when it has not rejected,
\* onReset runs: setSlides([]); setMode(UPLOAD).
ClearProjectEnds(t, outcome) ==
  /\ t.kind = "reset" /\ t.pc = "clear" /\ Answered(t)
  /\ store' = IF outcome = "written" THEN EmptyRecord ELSE store
  /\ autosave' = IF outcome = "written"
                 THEN [autosave EXCEPT !.project = None] ELSE autosave
  /\ IF outcome = "txerror"
     THEN UNCHANGED <<slides, mode>>
     ELSE slides' = <<>> /\ mode' = "UPLOAD"
  /\ Finish(t)
  /\ UNCHANGED <<screen, call, polling, slidesRef, nextId, userOps>>

\* ------------------------------------------------------ modes and ingestion
\* SetupFlow's onComplete.
SetupComplete ==
  /\ mode = "SETUP" /\ screen = "SETUP"
  /\ mode' = "UPLOAD"
  /\ screen' = "UPLOAD"
  /\ UNCHANGED <<autosave, call, polling, slides, slidesRef, processingSlideIds, activeRequests,
                 tasks, store, nextId, userOps>>

\* handleFileUpload up to `await convertPdfToImages(file)`; the upload screen
\* has been rendered.
UploadStart ==
  /\ mode = "UPLOAD" /\ screen = "UPLOAD"
  /\ mode' = "PROCESSING"
  /\ screen' = "PROCESSING"
  /\ UNCHANGED <<autosave, call, polling, slides, slidesRef, processingSlideIds, activeRequests,
                 tasks, store, nextId, userOps>>

\* convertPdfToImages returned the page images.
UploadDone(images) ==
  /\ mode = "PROCESSING"
  /\ slides' = [i \in 1..Len(images) |-> NewSlide(nextId + i - 1, images[i])]
  /\ nextId' = nextId + Len(images)
  /\ mode' = "EDITOR"
  /\ UNCHANGED <<screen, autosave, call, polling, slidesRef, processingSlideIds, activeRequests, tasks,
                 store, userOps>>

\* convertPdfToImages raised.
UploadFails ==
  /\ mode = "PROCESSING"
  /\ mode' = "UPLOAD"
  /\ UNCHANGED <<screen, autosave, call, polling, slides, slidesRef, processingSlideIds, activeRequests,
                 tasks, store, nextId, userOps>>

\* handleLoadDemo, from the rendered upload screen.
LoadDemo ==
  /\ mode = "UPLOAD" /\ screen = "UPLOAD"
  /\ slides' = [i \in 1..DemoPages |-> DemoSlide(i)]
  /\ mode' = "EDITOR"
  /\ UNCHANGED <<screen, autosave, call, polling, slidesRef, processingSlideIds, activeRequests, tasks,
                 store, nextId, userOps>>

\* React renders the queued updates and runs the effects of the commit: the
\* slidesRef effect, and the scheduler effect that owns the interval.
CommitEffects ==
  /\ \/ slidesRef # slides
     \/ screen # mode
     \/ \E t \in BagToSet(tasks) : t.fresh
  /\ slidesRef' = slides
  /\ polling' = (mode = "EDITOR")
  /\ screen' = mode
  /\ tasks' = Aged(tasks)
  /\ autosave' = IF slidesRef # slides \/ screen # mode
                 THEN AutoSaveEffect(autosave, slides, mode, slidesRef # slides)
                 ELSE autosave
  /\ UNCHANGED <<call, mode, slides, processingSlideIds, activeRequests, store,
                 nextId, userOps>>

\* ---------------------------------------------------------- specification
Pending == BagToSet(tasks)

\* The documents of 1..pages pages, all of them ordinary.
Documents(pages) == UNION { [1..n -> {"page"}] : n \in 1..pages }

Ingestion(docs) ==
  \/ SetupComplete
  \/ UploadStart
  \/ \E images \in docs : UploadDone(images)
  \/ UploadFails
  \/ CommitEffects

\* What the services a run talks to can answer.
AnyAnswer ==
  [analysis |-> AnalysisCallResults, parsed |-> ParsedResponses,
   citations |-> CitationLists, visual |-> VisualCallResults,
   bgUrl |-> {None, Some(LocalImage)}, upload |-> UploadOutcomes,
   checkpoint |-> CheckpointOutcomes, video |-> VideoOutcomes,
   area |-> AreaResponses]

\* The scheduler and the stages it dispatches.
Pipeline(in) ==
  \/ Tick
  \/ \E t \in Pending, r \in in.analysis, parsed \in in.parsed,
        citations \in in.citations : AnalysisEnds(t, r, parsed, citations)
  \/ \E t \in Pending, r \in in.visual, bgUrl \in in.bgUrl :
        VisualEnds(t, r, bgUrl)
  \/ \E t \in Pending, outcome \in in.upload : UploadEnds(t, outcome)
  \/ \E t \in Pending, outcome \in in.checkpoint : CheckpointEnds(t, outcome)
  \/ \E t \in Pending : LogEnds(t)

\* The operations the user starts in the editor.
Editor(in) ==
  \/ \E i \in 1..EditorPages, type \in VideoTypes : VideoStart(i, type)
  \/ \E t \in Pending, outcome \in in.video : VideoEnds(t, outcome)
  \/ \E i \in 1..EditorPages : DeepStart(i)
  \/ \E t \in Pending, r \in in.analysis, parsed \in in.parsed :
        DeepEnds(t, r, parsed)
  \/ \E i \in 1..EditorPages : AreaStart(i)
  \/ \E t \in Pending, r \in in.analysis, updates \in in.area :
        AreaEnds(t, r, updates)

\* A document of several pages whose analysis or image may be refused; the
\* other services answer.
QueueAnswer ==
  [AnyAnswer EXCEPT !.analysis = { r \in AnalysisCallResults :
                                     r.ok \/ r.error = Some("E403") },
                    !.parsed = {NominalParsed},
                    !.citations = {NominalCitations},
                    !.visual = { r \in VisualCallResults :
                                   r.ok \/ r.error = Some("E403") },
                    !.bgUrl = {Some(LocalImage)},
                    !.upload = {"public"},
                    !.checkpoint = {"written"}]

Next == Ingestion(Documents(MaxPages)) \/ Pipeline(QueueAnswer)

Spec == Init /\ [][Next]_vars

\* One page, every answer of every service.
NextStages == Ingestion(Documents(StagePages)) \/ Pipeline(AnyAnswer)

SpecStages == Init /\ [][NextStages]_vars

NextEditor == Ingestion(Documents(EditorPages)) \/ Pipeline(AnyAnswer) \/ Editor(AnyAnswer)

SpecEditor == Init /\ [][NextEditor]_vars

\* The image stage the scheduler runs on a slide a re-analysis has set back
\* to analyzed.
Rework(in) ==
  \/ Tick
  \/ \E t \in Pending, r \in in.visual, bgUrl \in in.bgUrl :
        VisualEnds(t, r, bgUrl)
  \/ \E t \in Pending, outcome \in in.upload : UploadEnds(t, outcome)
  \/ \E t \in Pending, outcome \in in.checkpoint : CheckpointEnds(t, outcome)
  \/ \E t \in Pending : LogEnds(t)

\* The demo deck in the editor: the checkpoints are written and the image
\* service answers; the calls of the editor's operations end in any way.
DemoAnswer ==
  [AnyAnswer EXCEPT !.visual = { r \in VisualCallResults : r.ok },
                    !.bgUrl = {Some(LocalImage)},
                    !.upload = {"public"},
                    !.checkpoint = {"written"}]

NextDemo ==
  \/ SetupComplete
  \/ LoadDemo
  \/ CommitEffects
  \/ Rework(DemoAnswer)
  \/ Editor(DemoAnswer)

SpecDemo == Init /\ [][NextDemo]_vars

\* ------------------------------------------------- withRetry by itself
\* The errors of the attempts of a call taken by itself: the critical one
\* and two that are not.
RetryErrors == Errors \cup {"E429"}

\* A call withRetry(fn, retries) and the outcomes fn will have, attempt by
\* attempt; out is what the call has come to, None while it runs.
RetryInputs ==
  UNION { { [outs |-> o, retries |-> n, out |-> None] :
              o \in [1..n -> {"ok"} \cup RetryErrors] } : n \in 1..MaxRetries }

InitRetry == Mounted /\ call \in RetryInputs

\* The call returns or raises.
WithRetryEnds ==
  /\ call.out = None
  /\ call' = [call EXCEPT !.out = Some(withRetry(call.outs, call.retries))]
  /\ UNCHANGED <<screen, autosave, mode, polling, slides, slidesRef,
                 processingSlideIds, activeRequests, tasks, store, nextId,
                 userOps>>

NextRetry == WithRetryEnds

SpecRetry == InitRetry /\ [][NextRetry]_vars

\* ----------------------------------------- cleanAndParseJSON by itself
\* A call on a response text: absent, a text of up to MaxText lexemes, or a
\* shorter one inside a fence.
ParseCall(text) == [text |-> text, out |-> None]

InitParse ==
  /\ Mounted
  /\ \/ call = ParseCall(None)
     \/ \E m \in 0..MaxText : \E t \in [1..m -> Lexemes] :
          call = ParseCall(Some(t))
     \/ \E m \in 0..(MaxText - 1) : \E t \in [1..m -> Lexemes] :
          \E f \in {"J", "F"} : call = ParseCall(Some(<<f>> \o t \o <<"F">>))

\* The call returns.
ParseEnds ==
  /\ call.out = None
  /\ call' = [call EXCEPT !.out = Some(cleanAndParseJSON(call.text))]
  /\ UNCHANGED <<screen, autosave, mode, polling, slides, slidesRef,
                 processingSlideIds, activeRequests, tasks, store, nextId,
                 userOps>>

NextParse == ParseEnds

SpecParse == InitParse /\ [][NextParse]_vars

\* The documents of 1..pages pages with one page the analysis service refuses.
OneRefused(pages) ==
  UNION { { d \in [1..n -> {"page", "refused"}] :
              Cardinality({ i \in 1..n : d[i] = "refused" }) = 1 } : n \in 1..pages }

\* analyzeSlideContent(img): a refused image raises the critical error at the
\* first attempt, every other image is analysed.
AnswerTo(img) ==
  IF img = "refused"
  THEN [ok |-> withRetry([i \in 1..AnalysisRetries |-> "E403"], AnalysisRetries).ok,
        error |-> withRetry([i \in 1..AnalysisRetries |-> "E403"], AnalysisRetries).error]
  ELSE [ok |-> withRetry([i \in 1..AnalysisRetries |-> "ok"], AnalysisRetries).ok,
        error |-> withRetry([i \in 1..AnalysisRetries |-> "ok"], AnalysisRetries).error]

\* Every call answers without raising, but for the analysis of a refused page.
Answers ==
  \/ \E t \in Pending :
        AnalysisEnds(t, AnswerTo(slides[t.index].originalImage), NominalParsed,
                     NominalCitations)
  \/ \E t \in Pending, r \in { x \in VisualCallResults : x.ok },
        bgUrl \in {None, Some(LocalImage)} : VisualEnds(t, r, bgUrl)
  \/ \E t \in Pending, outcome \in {"public", "null"} : UploadEnds(t, outcome)
  \/ \E t \in Pending, outcome \in {"written", "dbfail"} : CheckpointEnds(t, outcome)
  \/ \E t \in Pending : LogEnds(t)

NextIsolation == Ingestion(OneRefused(IsolationPages)) \/ Tick \/ Answers

\* The interval timer keeps firing, React renders what is queued, and every
\* call that was started answers.
SpecIsolation ==
  /\ Init /\ [][NextIsolation]_vars
  /\ WF_vars(Tick) /\ WF_vars(CommitEffects) /\ WF_vars(Answers)

\* ------------------------------------------- the scheduler left to itself
\* Every service answers in any of its ways; what the model writes into an
\* analysis is the nominal response.
ProgressAnswer ==
  [AnyAnswer EXCEPT !.parsed = {NominalParsed},
                    !.citations = {NominalCitations}]

\* One of the calls in `waiting` returns or raises.
Returns(waiting, in) ==
  \/ \E t \in waiting, r \in in.analysis, parsed \in in.parsed,
        citations \in in.citations : AnalysisEnds(t, r, parsed, citations)
  \/ \E t \in waiting, r \in in.visual, bgUrl \in in.bgUrl :
        VisualEnds(t, r, bgUrl)
  \/ \E t \in waiting, outcome \in in.upload : UploadEnds(t, outcome)
  \/ \E t \in waiting, outcome \in in.checkpoint : CheckpointEnds(t, outcome)
  \/ \E t \in waiting : LogEnds(t)

NextProgress ==
  Ingestion(Documents(ProgressPages)) \/ Tick \/ Returns(Pending, ProgressAnswer)

\* No user operation; the interval timer keeps firing, React renders what
\* is queued, and every call that was started returns or raises.
SpecProgress ==
  /\ Init /\ [][NextProgress]_vars
  /\ WF_vars(Tick) /\ WF_vars(CommitEffects)
  /\ WF_vars(Returns(Pending, ProgressAnswer))

\* ------------------------------------------------ calls that never return
\* The documents of 1..pages pages in which the analysis of at least one page
\* and of fewer than MAX_CONCURRENT pages never returns.
SomeStuck(pages) ==
  UNION { { d \in [1..n -> {"page", "stuck"}] :
              Cardinality({ i \in 1..n : d[i] = "stuck" }) \in
                1..(MAX_CONCURRENT - 1) } : n \in 1..pages }

\* The call t waits for never returns.
IsStuck(t) == t.pc = "analyze" /\ slides[t.index].originalImage = "stuck"

\* The calls that will return.
Live == { t \in Pending : ~IsStuck(t) }

NextStuck ==
  Ingestion(SomeStuck(StuckPages)) \/ Tick \/ Returns(Live, QueueAnswer)

\* The interval timer keeps firing, React renders what is queued, and every
\* call returns or raises but the analysis of the stuck pages.
SpecStuck ==
  /\ Init /\ [][NextStuck]_vars
  /\ WF_vars(Tick) /\ WF_vars(CommitEffects)
  /\ WF_vars(Returns(Live, QueueAnswer))

\* ------------------------------------------- the auto-save at work
\* The clock, the timeout and the two writes of the snapshot.
AutoSave ==
  \/ TimePasses
  \/ SnapshotStart
  \/ \E t \in Pending, outcome \in CheckpointOutcomes : SaveProjectEnds(t, outcome)
  \/ \E t \in Pending, outcome \in PersistOutcomes : PersistDeckEnds(t, outcome)

NextSnapshot ==
  Ingestion(Documents(SnapshotPages)) \/ Pipeline(QueueAnswer) \/ AutoSave

SpecSnapshot == Init /\ [][NextSnapshot]_vars

\* ------------------------------------- the editor with a live scheduler
\* A call of a stage or of an operation of the editor returns or raises.
Settles(in) ==
  \/ Returns(Pending, in)
  \/ \E t \in Pending, outcome \in in.video : VideoEnds(t, outcome)
  \/ \E t \in Pending, r \in in.analysis, parsed \in in.parsed :
        DeepEnds(t, r, parsed)
  \/ \E t \in Pending, r \in in.analysis, updates \in in.area :
        AreaEnds(t, r, updates)

\* SpecEditor with the interval timer firing, React rendering what is queued
\* and every call returning or raising; the user is free to act or not.
SpecHeal ==
  /\ Init /\ [][NextEditor]_vars
  /\ WF_vars(Tick) /\ WF_vars(CommitEffects) /\ WF_vars(Settles(AnyAnswer))

\* ----------------------------------------------------------- a reload
\* A slide as a snapshot taken in the given stage holds it: with the analysis
\* from analyzed on, with the image once it was generated.
SavedSlide(id, stage) ==
  [NewSlide(id, "page") EXCEPT
     !.status = stage,
     !.analysis = IF stage \in {"pending", "analyzing", "error"}
                  THEN None ELSE Some(AnalysisOf(NominalParsed)),
     !.groundingSources = IF stage \in {"pending", "analyzing", "error"}
                          THEN None ELSE Some(NominalCitations),
     !.error = IF stage = "error" THEN Some(Err("", "E503")) ELSE None,
     !.enhancedImage = IF stage \in {"generating_video", "editing_area", "complete"}
                       THEN Some(PublicImage) ELSE None]

\* The collections saveProject may have left in the project record.
SavedProjects ==
  UNION { { [i \in 1..n |-> SavedSlide(i, st[i])] : st \in [1..n -> Stages] } :
            n \in 1..ReloadPages }

\* The application starts over a project record left by an earlier session:
\* the init effect waits for loadProject.
InitReload ==
  /\ mode = "SETUP"
  /\ polling = FALSE
  /\ slides = <<>>
  /\ slidesRef = <<>>
  /\ processingSlideIds = {}
  /\ activeRequests = 0
  /\ store = EmptyRecord
  /\ userOps = 0
  /\ screen = "SETUP"
  /\ call = None
  /\ \E saved \in SavedProjects :
        /\ autosave = [timers |-> {}, isSaving |-> FALSE, lastSavedAt |-> None,
                       remote |-> None, project |-> Some(saved), sinceChange |-> 0]
        /\ nextId = Len(saved) + 1
  /\ tasks = One([Task("init", 0, 0, "load") EXCEPT !.fresh = FALSE])

\* `await loadProject()` of the init effect ends, with the record's slides or
\* with null; `configured` is isSupabaseConfigured().
LoadProjectEnds(t, found, configured) ==
  /\ t.kind = "init" /\ t.pc = "load" /\ Answered(t)
  /\ LET saved == IF found THEN autosave.project ELSE None IN
       IF saved # None /\ Len(saved[1]) > 0 /\ configured
       THEN /\ slides' = saved[1]
            /\ mode' = "EDITOR"
            /\ autosave' = [autosave EXCEPT !.lastSavedAt = Some("now")]
       ELSE /\ mode' = IF configured THEN "UPLOAD" ELSE "SETUP"
            /\ UNCHANGED <<slides, autosave>>
  /\ Finish(t)
  /\ UNCHANGED <<screen, call, polling, slidesRef, store, nextId, userOps>>

NextReload ==
  \/ \E t \in Pending, found \in BOOLEAN, configured \in BOOLEAN :
        LoadProjectEnds(t, found, configured)
  \/ CommitEffects
  \/ Tick
  \/ Returns(Pending, ProgressAnswer)

\* No user action after the reload; the interval timer keeps firing, React
\* renders what is queued, and every call returns or raises.
SpecReload ==
  /\ InitReload /\ [][NextReload]_vars
  /\ WF_vars(NextReload)

\* ----------------------------------------------- a deck that is replaced
\* The user resets the deck, or previews it, while the scheduler works; after
\* a reset a document is uploaded or the demo deck is loaded.
Replacement ==
  \/ ResetStart
  \/ \E t \in Pending, outcome \in CheckpointOutcomes : ClearProjectEnds(t, outcome)
  \/ Play
  \/ ExitPlayer
  \/ LoadDemo

NextReset ==
  Ingestion(Documents(ResetPages)) \/ Replacement \/ Pipeline(QueueAnswer)

SpecReset == Init /\ [][NextReset]_vars

\* ================================================================ claims
\* The advancements the scheduler dispatched that have not ended yet.
Dispatched == [t \in { u \in Pending : IsScheduled(u) } |-> tasks[t]]

DispatchedFor(id) == [t \in { u \in Pending : IsScheduled(u) /\ u.id = id } |-> tasks[t]]

\* C1: in every reachable state the number of advancements the scheduler
\* dispatched and that are still in flight, and the counter that tracks
\* them, are at most MAX_CONCURRENT.
C1_AtMostMaxConcurrent ==
  /\ BagCardinality(Dispatched) <= MAX_CONCURRENT
  /\ activeRequests <= MAX_CONCURRENT

\* The cap binds: MAX_CONCURRENT advancements in flight, a tick due, and an
\* eligible slide waiting.
C1_CapBinds ==
  /\ polling
  /\ BagCardinality(Dispatched) = MAX_CONCURRENT
  /\ activeRequests = MAX_CONCURRENT
  /\ NextTaskIndex(slidesRef, processingSlideIds) # 0

\* The ids handed out so far.
Ids == 1..(nextId - 1)

\* C2: a slide has at most one advancement dispatched by the scheduler in
\* flight; its id is in processingSlideIds from the dispatch until the
\* advancement ends; and no step dispatches an advancement for an id that is
\* in processingSlideIds.
C2_OneAdvancementPerSlide ==
  /\ [](\A id \in Ids :
          /\ BagCardinality(DispatchedFor(id)) <= 1
          /\ BagCardinality(DispatchedFor(id)) = 1 => id \in processingSlideIds)
  /\ [][\A id \in processingSlideIds :
          BagCardinality(DispatchedFor(id))' <= BagCardinality(DispatchedFor(id))]_vars

\* A tick is due, a slot is free, and only its id in processingSlideIds keeps
\* a slide that shows as analyzed from being dispatched again.
C2_HeldBackByMarker ==
  /\ polling
  /\ HasFreeSlot(activeRequests)
  /\ \E i \in 1..Len(slidesRef) :
        /\ slidesRef[i].status = "analyzed"
        /\ slidesRef[i].id \in processingSlideIds
        /\ BagCardinality(DispatchedFor(slidesRef[i].id)) = 1

\* The step dispatches an advancement for id.
Dispatches(id) ==
  BagCardinality(DispatchedFor(id))' > BagCardinality(DispatchedFor(id))

\* The operations the user started that have not ended yet.
UserTasks == [t \in { u \in Pending : ~IsScheduled(u) } |-> tasks[t]]

\* The step starts, continues or ends an operation the user started.
UserStep == userOps' # userOps \/ UserTasks' # UserTasks

\* The stage of the slide id in the collection sl.
StageOf(sl, id) == sl[FindIndex(sl, id)].status

\* C3: a step dispatches a slide only when its stage in the collection is
\* pending or analyzed and its id is not in processingSlideIds (so never in
\* error, analyzing, generating_image, generating_video, editing_area or
\* complete); and a slide in error leaves error only in a step of an
\* operation the user started.
C3_DispatchOnlyPendingOrAnalyzed ==
  [][/\ \A id \in Ids :
          Dispatches(id) =>
            /\ FindIndex(slides, id) # 0
            /\ StageOf(slides, id) \in {"pending", "analyzed"}
            /\ id \notin processingSlideIds
     /\ \A i \in 1..Len(slides) :
          (/\ slides[i].status = "error"
           /\ i <= Len(slides')
           /\ slides'[i].id = slides[i].id
           /\ slides'[i].status # "error") => UserStep]_vars

\* C4: the slide a step dispatches is the eligible slide at the smallest
\* position of the collection the tick read (slidesRef.current): it is
\* eligible there and no slide before it is.
C4_FirstEligibleInDocumentOrder ==
  [][\A id \in Ids :
       Dispatches(id) =>
         LET i == FindIndex(slidesRef, id) IN
           /\ i # 0
           /\ IsEligible(slidesRef[i], processingSlideIds)
           /\ \A j \in 1..(i - 1) :
                ~IsEligible(slidesRef[j], processingSlideIds)]_vars

\* A slide has been dispatched while a later slide was eligible too: both
\* were pending, the earlier one is being analyzed, the later one waits with
\* a slot free.
C4_LaterSlideWaits ==
  /\ polling
  /\ HasFreeSlot(activeRequests)
  /\ \E i \in 1..Len(slidesRef) : \E j \in (i + 1)..Len(slidesRef) :
        /\ slidesRef[i].status = "analyzing"
        /\ BagCardinality(DispatchedFor(slidesRef[i].id)) = 1
        /\ slidesRef[j].status = "pending"
        /\ IsEligible(slidesRef[j], processingSlideIds)

\* The step ends the advancement the scheduler dispatched for id.
Ends(id) ==
  BagCardinality(DispatchedFor(id))' < BagCardinality(DispatchedFor(id))

\* C5: a step in which a dispatched advancement returns or raises removes
\* its id from processingSlideIds and decrements activeRequests by one; so
\* the set holds exactly the ids of the advancements in flight and the
\* counter is their number.
C5_ReleasedExactlyOnce ==
  /\ [][\A id \in Ids :
          Ends(id) => /\ id \in processingSlideIds
                      /\ processingSlideIds' = processingSlideIds \ {id}
                      /\ activeRequests' = activeRequests - 1]_vars
  /\ [](/\ activeRequests = BagCardinality(Dispatched)
         /\ processingSlideIds = { t.id : t \in DOMAIN Dispatched })

\* An advancement has raised while the cap was binding: its slide is in
\* error, its id is out of the set, one slot is free again and a pending
\* slide is there for the next tick.
C5_SlotFreedByFailure ==
  /\ polling
  /\ activeRequests = MAX_CONCURRENT - 1
  /\ \E i \in 1..Len(slides) :
        /\ slides[i].status = "error"
        /\ slides[i].id \notin processingSlideIds
  /\ \E j \in 1..Len(slidesRef) :
        /\ slidesRef[j].status = "pending"
        /\ IsEligible(slidesRef[j], processingSlideIds)

\* The stage and the page image of the slide at position i, if there is one.
StatusAt(i) == IF i \in 1..Len(slides) THEN slides[i].status ELSE "none"

ImageAt(i) == IF i \in 1..Len(slides) THEN slides[i].originalImage ELSE "none"

\* C6: in a document one page of which the analysis always refuses with a
\* critical error while every other call answers, the slide of the refused
\* page goes to error and stays there, and every other slide goes from
\* pending to analyzed and from there to complete, where it stays.
C6_ErrorIsolation ==
  \A i \in 1..IsolationPages :
    /\ (mode = "EDITOR" /\ ImageAt(i) = "refused")
          ~> [](StatusAt(i) = "error")
    /\ (mode = "EDITOR" /\ ImageAt(i) = "page" /\ StatusAt(i) = "pending")
          ~> (StatusAt(i) = "analyzed")
    /\ (mode = "EDITOR" /\ ImageAt(i) = "page" /\ StatusAt(i) = "analyzed")
          ~> [](StatusAt(i) = "complete")

\* The run is over for a document of IsolationPages pages: the slide of the
\* refused page is in error and all the others are complete.
C6_OneErrorOthersComplete ==
  /\ mode = "EDITOR" /\ tasks = EmptyBag /\ slidesRef = slides
  /\ Len(slides) = IsolationPages
  /\ \A i \in 1..Len(slides) :
        slides[i].status = (IF slides[i].originalImage = "refused"
                            THEN "error" ELSE "complete")

\* An operation of the given kind on the slide id waits at pc.
At(id, kind, pc) ==
  \E t \in Pending : t.id = id /\ t.kind = kind /\ t.pc = pc

\* The slide id in the collection sl.
SlideOf(sl, id) == sl[FindIndex(sl, id)]

\* C7: the step that dispatches the analysis of a pending slide sets it to
\* analyzing; the step in which analyzeSlideContent returns sets it to
\* analyzed with the analysis and the citations of the answer; the step in
\* which it raises (a critical error, or the last of the attempts) sets it to
\* error with the error recorded, the analysis and the citations untouched
\* (unset, as they were when the pending slide was dispatched).
C7_AnalysisStage ==
  [][\A id \in Ids :
       /\ (~At(id, "analysis", "analyze") /\ At(id, "analysis", "analyze")') =>
            /\ StageOf(slides, id) = "pending"
            /\ SlideOf(slides', id) =
                 Spread(SlideOf(slides, id), [status |-> "analyzing"])
       /\ (At(id, "analysis", "analyze") /\ ~At(id, "analysis", "analyze")') =>
            \/ \E parsed \in ParsedResponses, citations \in CitationLists :
                 SlideOf(slides', id) =
                   Spread(SlideOf(slides, id),
                          [status |-> "analyzed",
                           analysis |-> Some(AnalysisOf(parsed)),
                           groundingSources |-> Some(citations)])
            \/ \E e \in Errors :
                 /\ SlideOf(slides', id) =
                      Spread(SlideOf(slides, id),
                             [status |-> "error", error |-> Some(Err("", e))])
                 /\ SlideOf(slides', id).analysis = None
                 /\ SlideOf(slides', id).groundingSources = None]_vars

\* The analysis of a slide has used up its attempts on an error that is not
\* critical: the slide is in error with that error and has no analysis.
C7_AnalysisGaveUp ==
  \E i \in 1..Len(slides) :
    /\ slides[i].status = "error"
    /\ slides[i].error = Some(Err("", "E503"))
    /\ slides[i].analysis = None
    /\ ~At(slides[i].id, "analysis", "analyze")

\* The operation of the given kind on the slide id leaves pc in this step.
Leaves(id, kind, pc) == At(id, kind, pc) /\ ~At(id, kind, pc)'

\* C8: the step that dispatches the image stage of an analyzed slide sets it
\* to generating_image; when generateSlideVisual has returned, the slide goes
\* to complete with enhancedImage set to the generated image or to its public
\* URL; when it raises, the slide goes to error with the error recorded and
\* enhancedImage unchanged.
C8_ImageStage ==
  [][\A id \in Ids :
       /\ (~At(id, "visuals", "visual") /\ At(id, "visuals", "visual")') =>
            StageOf(slides', id) = "generating_image"
       /\ Leaves(id, "visuals", "visual") =>
            \/ /\ At(id, "visuals", "upload")'
               /\ SlideOf(slides', id) = SlideOf(slides, id)
            \/ \E e \in Errors :
                 SlideOf(slides', id) =
                   Spread(SlideOf(slides, id),
                          [status |-> "error", error |-> Some(Err("", e))])
       /\ Leaves(id, "visuals", "upload") =>
            /\ StageOf(slides', id) = "complete"
            /\ SlideOf(slides', id).enhancedImage
                 \in {Some(LocalImage), Some(PublicImage)}]_vars

\* The generated image or video of the operation that waits for its upload.
Generated(id, kind) ==
  (CHOOSE t \in Pending : t.id = id /\ t.kind = kind /\ t.pc = "upload").url

\* C9: however the upload that follows a generated image or video ends, the
\* slide goes to complete in that step and holds the public URL or the
\* locally generated image or video.
C9_UploadFailureIsNotFatal ==
  [][\A id \in Ids :
       /\ Leaves(id, "visuals", "upload") =>
            /\ StageOf(slides', id) = "complete"
            /\ SlideOf(slides', id).enhancedImage
                 \in {Generated(id, "visuals"), Some(PublicImage)}
       /\ Leaves(id, "video", "upload") =>
            /\ StageOf(slides', id) = "complete"
            /\ {Generated(id, "video"), Some(PublicVideo)} \cap
                 {SlideOf(slides', id).videoUrl,
                  SlideOf(slides', id).transitionVideoUrl} # {}]_vars

\* C10: the click that starts a video synthesis sets the slide to
\* generating_video; when generateVideoFromImage returns nothing the slide
\* goes to complete, when it raises the slide goes to complete with the
\* message "Veo fail: ..." as its error, when it returns a video the upload
\* follows and the slide goes to complete when that ends; no step of the
\* operation sets error, and a slide is in generating_video only while the
\* operation waits for the video or the upload.
C10_VideoStage ==
  /\ [][\A id \in Ids :
          /\ (~At(id, "video", "video") /\ At(id, "video", "video")') =>
               /\ StageOf(slides', id) = "generating_video"
               /\ StageOf(slidesRef', id) = "generating_video"
          /\ Leaves(id, "video", "video") =>
               \/ /\ At(id, "video", "upload")'
                  /\ SlideOf(slides', id) = SlideOf(slides, id)
               \/ /\ StageOf(slides', id) = "complete"
                  /\ SlideOf(slides', id).error = SlideOf(slides, id).error
               \/ /\ StageOf(slides', id) = "complete"
                  /\ SlideOf(slides', id).error = Some(Err("Veo fail: ", "EVEO"))
          /\ Leaves(id, "video", "upload") =>
               StageOf(slides', id) = "complete"
          /\ Leaves(id, "video", "checkpoint") =>
               StageOf(slides', id) \in {StageOf(slides, id), "complete"}]_vars
  /\ [](\A i \in 1..Len(slides) :
          slides[i].status = "generating_video" =>
            \/ At(slides[i].id, "video", "video")
            \/ At(slides[i].id, "video", "upload"))

\* The video call has raised: the operation is over, the slide is complete
\* and carries the message.
C10_VideoFailedSlideComplete ==
  \E i \in 1..Len(slides) :
    /\ slides[i].status = "complete"
    /\ slides[i].error = Some(Err("Veo fail: ", "EVEO"))
    /\ \A t \in Pending : t.kind # "video"

\* C11: when performAreaEdit returns the partial record R for a slide whose
\* analysis is C, the slide's analysis after that step is C overridden by
\* the fields of R, every other field of C keeping its value, and the stage
\* is complete.
C11_AreaEditMerge ==
  [][\A t \in Pending, r \in AnalysisCallResults, R \in AreaResponses :
       (/\ AreaEnds(t, r, R)
        /\ r.ok
        /\ SlideOf(slides, t.id).analysis # None) =>
          /\ SlideOf(slides', t.id).analysis =
               Some(Spread(SlideOf(slides, t.id).analysis[1], R))
          /\ StageOf(slides', t.id) = "complete"]_vars

\* C12: in the step in which deepAnalyzeSlide returns for a slide that has an
\* analysis, every field of that analysis which the returned analysis does
\* not hold is still in the slide's analysis with its previous value.
C12_DeepAnalysisMerges ==
  [][\A t \in Pending, r \in AnalysisCallResults, parsed \in ParsedResponses :
       (/\ DeepEnds(t, r, parsed)
        /\ r.ok
        /\ SlideOf(slides, t.id).analysis # None) =>
          LET before == SlideOf(slides, t.id).analysis[1]
              after == SlideOf(slides', t.id).analysis[1]
          IN \A f \in (DOMAIN before) \ (DOMAIN DeepAnalysisOf(parsed)) :
               f \in DOMAIN after /\ after[f] = before[f]]_vars

\* The media of the slide id in the collection sl.
MediaOf(sl, id) ==
  LET s == SlideOf(sl, id) IN
    <<s.generatedAssets, s.videoUrl, s.transitionVideoUrl>>

\* C13: the steps of a deep re-analysis (the click, and the step in which
\* deepAnalyzeSlide returns or raises) leave the slide's generatedAssets,
\* videoUrl and transitionVideoUrl as they were.
C13_DeepAnalysisKeepsMedia ==
  [][/\ \A i \in 1..Len(slidesRef) :
          (DeepStart(i) /\ FindIndex(slides, slidesRef[i].id) # 0) =>
            MediaOf(slides', slidesRef[i].id) = MediaOf(slides, slidesRef[i].id)
     /\ \A t \in Pending, r \in AnalysisCallResults, parsed \in ParsedResponses :
          (DeepEnds(t, r, parsed) /\ FindIndex(slides, t.id) # 0) =>
            MediaOf(slides', t.id) = MediaOf(slides, t.id)]_vars

\* A slide that had a video has been re-analysed: it holds the analysis
\* deepAnalyzeSlide returned and still has the video.
C13_ReanalysedWithVideo ==
  \E i \in 1..Len(slides) :
    /\ slides[i].status = "analyzed"
    /\ slides[i].analysis = Some(DeepAnalysisOf(NominalParsed))
    /\ slides[i].videoUrl # None
    /\ \A t \in Pending : t.kind # "deep"

\* The step writes the success of the call t waited for into the slide: the
\* analysis or the deep re-analysis returned, the generated image or video
\* has gone through its upload, or the area edit returned for a slide with
\* an analysis.
SucceedsIn(t) ==
  \/ \E r \in AnalysisCallResults, parsed \in ParsedResponses,
        citations \in CitationLists :
        r.ok /\ AnalysisEnds(t, r, parsed, citations)
  \/ \E r \in AnalysisCallResults, parsed \in ParsedResponses :
        r.ok /\ DeepEnds(t, r, parsed)
  \/ \E outcome \in UploadOutcomes \ {"raise"} : UploadEnds(t, outcome)
  \/ \E r \in AnalysisCallResults, updates \in AreaResponses :
        r.ok /\ t.snap # None /\ t.snap[1].analysis # None
             /\ AreaEnds(t, r, updates)

\* C14: after a step that writes a success (of the analysis, the deep
\* re-analysis, the image generation, the video synthesis or an area edit)
\* into a slide, the slide carries no error.
C14_ErrorClearedOnSuccess ==
  [][\A t \in Pending :
       (SucceedsIn(t) /\ FindIndex(slides', t.id) # 0) =>
         SlideOf(slides', t.id).error = None]_vars

\* The fields of an analysis that the views read as lists.
ListFields == {"keyTakeaways", "assetPrompts", "keywords"}

\* C15: a slide gets its analysis only in a step in which analyzeSlideContent
\* or deepAnalyzeSlide returns, and whenever a slide has an analysis, its
\* keyTakeaways, assetPrompts and keywords are lists.
C15_ListFieldsAreLists ==
  /\ [][\A i \in 1..Len(slides) :
          (/\ i <= Len(slides')
           /\ slides[i].analysis = None
           /\ slides'[i].analysis # None) =>
             \E t \in Pending, r \in AnalysisCallResults,
                parsed \in ParsedResponses :
               /\ r.ok
               /\ t.id = slides[i].id
               /\ \/ \E citations \in CitationLists :
                       AnalysisEnds(t, r, parsed, citations)
                  \/ DeepEnds(t, r, parsed)]_vars
  /\ [](\A i \in 1..Len(slides) :
          slides[i].analysis # None =>
            \A f \in ListFields : IsArrayField(slides[i].analysis[1], f))

\* C16: a slide that is complete has an analysis, and the step in which
\* analyzeSlideContent or deepAnalyzeSlide raises does not set the slide to
\* complete.
C16_CompleteHasContent ==
  /\ [](\A i \in 1..Len(slides) :
          slides[i].status = "complete" => slides[i].analysis # None)
  /\ [][\A t \in Pending, r \in AnalysisCallResults,
           parsed \in ParsedResponses :
          (/\ ~r.ok
           /\ FindIndex(slides', t.id) # 0
           /\ \/ \E citations \in CitationLists :
                   AnalysisEnds(t, r, parsed, citations)
              \/ DeepEnds(t, r, parsed)) =>
             StageOf(slides', t.id) # "complete"]_vars

\* Every attempt of the call fails with an error that is not critical.
AlwaysRetryable ==
  \A k \in 1..call.retries : call.outs[k] \in RetryErrors \ {"E403"}

\* C17: the delay waited after the failed attempt i (from 0) is 1000 * 2^i;
\* delays are waited between attempts only, so there is one less than calls;
\* and a call with 3 attempts that all fail with retryable errors has made
\* exactly 3 calls and waited exactly the delays 1000 and 2000 when it raises.
C17_BackoffSchedule ==
  call.out # None =>
    LET out == call.out[1] IN
      /\ \A k \in 1..Len(out.delays) : out.delays[k] = 1000 * 2 ^ (k - 1)
      /\ Len(out.delays) = out.calls - 1
      /\ (call.retries = 3 /\ AlwaysRetryable) =>
            /\ ~out.ok
            /\ out.calls = 3
            /\ out.delays = <<1000, 2000>>

\* C18: when attempt k is the first to raise a critical error (the attempts
\* before it failing with retryable ones), the call has made exactly k calls
\* and raises that error, having waited only the k - 1 delays of the attempts
\* before; with k = 1 that is one call and no delay.
C18_FatalShortCircuit ==
  call.out # None =>
    \A k \in 1..call.retries :
      (/\ call.outs[k] = "E403"
       /\ \A j \in 1..(k - 1) : call.outs[j] \in RetryErrors \ {"E403"}) =>
         /\ ~call.out[1].ok
         /\ call.out[1].error = Some("E403")
         /\ call.out[1].calls = k
         /\ Len(call.out[1].delays) = k - 1

\* The second attempt raised the critical error and the call raised it
\* after two calls.
C18_SecondAttemptFatal ==
  /\ call.out # None
  /\ call.retries = 3
  /\ call.outs[1] = "E503" /\ call.outs[2] = "E403"
  /\ call.out[1].calls = 2
  /\ call.out[1].error = Some("E403")

\* C19: a call whose attempts all fail with retryable errors raises the error
\* of its last attempt; a call whose attempt k is the first to succeed (the
\* ones before failing with retryable errors) returns after exactly k calls.
C19_LastErrorOrResult ==
  call.out # None =>
    /\ AlwaysRetryable =>
         /\ ~call.out[1].ok
         /\ call.out[1].error = Some(call.outs[call.retries])
    /\ \A k \in 1..call.retries :
         (/\ call.outs[k] = "ok"
          /\ \A j \in 1..(k - 1) : call.outs[j] \in RetryErrors \ {"E403"}) =>
            /\ call.out[1].ok
            /\ call.out[1].error = None
            /\ call.out[1].calls = k

\* Three attempts failed with two different retryable errors and the call
\* raised the last one.
C19_RaisedTheLastError ==
  /\ call.out # None
  /\ call.outs = <<"E503", "E503", "E429">>
  /\ call.retries = 3
  /\ call.out[1].error = Some("E429")

\* The service fails the first attempt with a retryable error and answers
\* every later one.
TransientThenOk(attempts) ==
  [k \in 1..attempts |-> IF k = 1 THEN "E503" ELSE "ok"]

\* What the caller of the wrapped call sees of such a service.
Recovered(retries) ==
  LET r == withRetry(TransientThenOk(retries), retries) IN
    [ok |-> r.ok, error |-> r.error]

\* The step records no error on the slide id.
NoErrorRecorded(id) ==
  /\ FindIndex(slides, id) # 0
  /\ FindIndex(slides', id) # 0
  /\ StageOf(slides', id) = "error" => StageOf(slides, id) = "error"
  /\ SlideOf(slides', id).error = SlideOf(slides, id).error

\* C20: when the service of a stage call (analysis, deep re-analysis, image
\* generation, video synthesis, area edit) fails once with a retryable error
\* and then answers, the step in which the call ends is the stage's success:
\* the analysis stages set analyzed, and no stage records an error.
C20_TransientErrorsRetried ==
  [][\A t \in Pending :
       /\ \A parsed \in ParsedResponses, citations \in CitationLists :
            AnalysisEnds(t, Recovered(AnalysisRetries), parsed, citations) =>
              StageOf(slides', t.id) = "analyzed" /\ NoErrorRecorded(t.id)
       /\ \A parsed \in ParsedResponses :
            DeepEnds(t, Recovered(AnalysisRetries), parsed) =>
              StageOf(slides', t.id) = "analyzed" /\ NoErrorRecorded(t.id)
       /\ \A bgUrl \in {None, Some(LocalImage)} :
            VisualEnds(t, Recovered(VisualRetries), bgUrl) =>
              NoErrorRecorded(t.id)
       /\ \A updates \in AreaResponses :
            AreaEnds(t, Recovered(AnalysisRetries), updates) =>
              NoErrorRecorded(t.id)
       /\ \A outcome \in VideoCallOutcomes(TransientThenOk(AnalysisRetries)) :
            VideoEnds(t, outcome) => NoErrorRecorded(t.id)]_vars

\* C21: whatever the text (absent, empty, not JSON, or JSON that is not an
\* object), what cleanAndParseJSON returns is an object.
C21_ParserReturnsRecord ==
  call.out # None => call.out[1].kind = "object"

\* The text is a JSON object.
IsObject(s) == IsJSON(s) /\ s[1] = "{"

\* The text s without its lexeme at position p.
Without(s, p) == SubSeq(s, 1, p - 1) \o SubSeq(s, p + 1, Len(s))

\* The text s with k closing braces appended.
Closed(s, k) == s \o [i \in 1..k |-> "}"]

\* The call has returned from a text that is the object inside a fence.
FencedObject ==
  /\ call.out # None /\ call.text # None
  /\ LET s == call.text[1] IN
       /\ Len(s) >= 3 /\ s[1] \in {"J", "F"} /\ s[Len(s)] = "F"
       /\ IsObject(SubSeq(s, 2, Len(s) - 1))

\* The call has returned from a text that is an object but for the comma at
\* position p, which stands before a closing brace or bracket.
TrailingComma(p) ==
  /\ call.out # None /\ call.text # None
  /\ LET s == call.text[1] IN
       /\ p < Len(s) /\ s[p] = "," /\ s[p + 1] \in {"}", "]"}
       /\ IsObject(Without(s, p))

\* The call has returned from a text that is an object but for k closing
\* braces missing at its end.
MissingBraces(k) ==
  /\ call.out # None /\ call.text # None
  /\ IsObject(Closed(call.text[1], k))

\* C23: a fenced object parses to the object; an object with one trailing
\* comma parses to the object without the comma; an object missing k closing
\* braces parses to the object with the k braces appended; and a text that
\* neither parses as it is cleaned nor as it is repaired gives {}.
C23_ParserRepair ==
  /\ FencedObject =>
       call.out[1] = ValueOf(SubSeq(call.text[1], 2, Len(call.text[1]) - 1))
  /\ \A p \in 1..MaxText :
       TrailingComma(p) => call.out[1] = ValueOf(Without(call.text[1], p))
  /\ \A k \in 1..MaxText :
       MissingBraces(k) => call.out[1] = ValueOf(Closed(call.text[1], k))
  /\ (/\ call.out # None /\ call.text # None
      /\ ~IsJSON(Cleaned(call.text[1]))
      /\ ~IsJSON(Fixed(call.text[1]))) => call.out[1] = EmptyObject

\* Response texts of a model that does not keep to the schema: none, empty,
\* prose, a cut-off object, a number, null.
MalformedResponses ==
  { None, Some(<<>>), Some(<<"w", "w">>), Some(<<"{", "k", "1">>),
    Some(<<"1">>), Some(<<"null">>) }

\* The slide id is in the given stage and has an analysis.
SucceededAs(sl, id, stage) ==
  /\ FindIndex(sl, id) # 0
  /\ StageOf(sl, id) = stage
  /\ SlideOf(sl, id).analysis # None

\* C22: whatever text the requests of an analysis, a deep re-analysis or an
\* area edit return, the step in which the call ends leaves the slide in the
\* stage's success state (analyzed, or complete for the area edit of a slide
\* that had an analysis) with an analysis.
C22_MalformedResponseNeverFails ==
  [][\A t \in Pending, text \in MalformedResponses :
       /\ \A parsed \in ParsedResponses, citations \in CitationLists :
            AnalysisEnds(t, AnalysisOn(text), parsed, citations) =>
              SucceededAs(slides', t.id, "analyzed")
       /\ \A parsed \in ParsedResponses :
            DeepEnds(t, AnalysisOn(text), parsed) =>
              SucceededAs(slides', t.id, "analyzed")
       /\ \A updates \in AreaResponses :
            (/\ t.snap # None /\ t.snap[1].analysis # None
             /\ AreaEnds(t, [ok |-> TRUE, error |-> None], updates)) =>
               SucceededAs(slides', t.id, "complete")]_vars
\* The step writes into the slide the success of the stage t, which the
\* scheduler dispatched.
Advances(t) ==
  /\ IsScheduled(t)
  /\ \/ SucceedsIn(t)
     \/ \E r \in VisualCallResults : r.ok /\ VisualEnds(t, r, None)

\* The advancements of the slide id that wait for the checkpoint they issued.
Checkpointing(bag, id) ==
  { u \in BagToSet(bag) : IsScheduled(u) /\ u.id = id /\ u.pc = "checkpoint" }

\* C24: the step in which an advancement the scheduler dispatched writes the
\* new stage of its slide into the collection also issues the checkpoint of
\* the slide with that stage, and leaves the id in processingSlideIds; the id
\* stays there while the advancement waits for the checkpoint, so that no
\* tick dispatches the slide before the checkpoint has been issued.
C24_CheckpointBeforeRelease ==
  /\ [][\A t \in Pending :
          Advances(t) =>
            /\ t.id \in processingSlideIds'
            /\ \E u \in Checkpointing(tasks', t.id) :
                  /\ u.put[1].id = t.id
                  /\ u.put[1].status = StageOf(slides', t.id)]_vars
  /\ [](\A id \in Ids : Checkpointing(tasks, id) # {} => id \in processingSlideIds)
  /\ [][\A id \in Ids :
          Dispatches(id) => Checkpointing(tasks, id) = {}]_vars

\* A tick is due and a slot is free while the checkpoint of a slide that
\* shows as analyzed is being written: only its id in processingSlideIds
\* keeps the slide from being dispatched.
C24_TickDuringCheckpoint ==
  /\ polling
  /\ HasFreeSlot(activeRequests)
  /\ \E i \in 1..Len(slidesRef) :
        /\ slidesRef[i].status = "analyzed"
        /\ IgnoreInFlight(slidesRef[i], processingSlideIds)
        /\ \E u \in Checkpointing(tasks, slidesRef[i].id) :
              ~u.fresh /\ u.put[1].status = "analyzed"

\* The calls of updatePersistentSlide not yet ended that put the slide id with
\* the given stage.
PutsOf(bag, id, stage) ==
  LET puts == { u \in BagToSet(bag) :
                  /\ u.pc = "checkpoint"
                  /\ u.put[1].id = id
                  /\ u.put[1].status = stage }
  IN BagCardinality([u \in puts |-> bag[u]])

\* C25: every step that changes the stage of a slide in the collection
\* issues a put of that slide with the new stage to the store.
C25_EveryTransitionCheckpointed ==
  [][\A i \in 1..Len(slides) :
       (Len(slides') = Len(slides) /\ slides'[i].status # slides[i].status) =>
         PutsOf(tasks', slides[i].id, slides'[i].status) >
           PutsOf(tasks, slides[i].id, slides'[i].status)]_vars

\* C26: with the interval timer firing, the editor mounted, no user operation
\* and every call that was started returning or raising, every slide that
\* handleFileUpload created as pending comes to complete or to error.
C26_PendingReachesTerminal ==
  \A i \in 1..ProgressPages :
    (Len(slides) >= i /\ slides[i].status = "pending")
      ~> (Len(slides) >= i /\ slides[i].status \in {"complete", "error"})

\* The scheduler has brought a document of two pages to its end, one page
\* complete and one in error.
C26_BothTerminal ==
  /\ Len(slides) = 2
  /\ tasks = EmptyBag
  /\ { slides[i].status : i \in 1..2 } = {"complete", "error"}

\* C27: when the analysis of fewer than MAX_CONCURRENT slides never returns,
\* the interval timer stays live, every other slide that is pending comes
\* to complete or error, and a slide whose call is stuck keeps its id in
\* processingSlideIds and is not dispatched a second time.
C27_StuckCallBlocksOwnSlot ==
  /\ \A i \in 1..StuckPages :
        (Len(slides) >= i /\ slides[i].status = "pending"
                          /\ slides[i].originalImage # "stuck")
          ~> (Len(slides) >= i /\ slides[i].status \in {"complete", "error"})
  /\ [][polling => polling']_vars
  /\ [](\A t \in Pending : IsStuck(t) => t.id \in processingSlideIds)
  /\ [][\A t \in Pending : IsStuck(t) => ~Dispatches(t.id)]_vars

\* Two calls are stuck, and the third slide has gone through both stages in
\* the slot that is left.
C27_OthersDoneWhileStuck ==
  /\ Cardinality({ t \in Pending : IsStuck(t) }) = MAX_CONCURRENT - 1
  /\ \E i \in 1..Len(slides) :
        slides[i].originalImage # "stuck" /\ slides[i].status = "complete"
  /\ polling

\* The callbacks of the auto-save that are at the given await.
Snapshots(bag, pc) ==
  { t \in BagToSet(bag) : t.kind = "snapshot" /\ t.pc = pc }

\* The step starts a full-snapshot write.
StartsSnapshot ==
  \E t \in Snapshots(tasks', "save") :
    t.fresh /\ (t \in DOMAIN tasks => tasks'[t] > tasks[t])

\* C28: a full-snapshot write starts with saveProject, of the collection as
\* rendered, and only when that collection has not changed for the whole
\* quiet period; persistDeck follows saveProject; a step that changes the
\* rendered collection leaves one pending timeout, with the whole period to
\* go; and the end of either write, failed or not, changes no slide.
C28_DebouncedSnapshot ==
  /\ [][StartsSnapshot =>
          /\ autosave.sinceChange = QuietSteps
          /\ \A t \in Snapshots(tasks', "save") :
                (t.fresh /\ (t \in DOMAIN tasks => tasks'[t] > tasks[t])) =>
                  t.snap = Some(slidesRef)
          /\ Snapshots(tasks', "persist") = Snapshots(tasks, "persist")]_vars
  /\ [][(slidesRef' # slidesRef /\ Len(slidesRef') > 0) =>
          autosave'.timers = {[left |-> QuietSteps, slides |-> slidesRef']}]_vars
  /\ [][\A t \in Pending :
          /\ \A outcome \in CheckpointOutcomes :
                SaveProjectEnds(t, outcome) =>
                  /\ slides' = slides /\ slidesRef' = slidesRef
                  /\ outcome = "txerror" =>
                       BagCardinality(tasks') = BagCardinality(tasks) - 1
                  /\ outcome # "txerror" =>
                       \E u \in Snapshots(tasks', "persist") :
                         u.fresh /\ u.snap = t.snap
          /\ \A outcome \in PersistOutcomes :
                PersistDeckEnds(t, outcome) =>
                  slides' = slides /\ slidesRef' = slidesRef]_vars

\* The write of a snapshot has failed, and the slide is where the scheduler
\* has brought it meanwhile.
C28_SnapshotFailed ==
  /\ ~autosave.isSaving
  /\ autosave.lastSavedAt = None
  /\ Snapshots(tasks, "save") = {} /\ Snapshots(tasks, "persist") = {}
  /\ autosave.timers = {}
  /\ Len(slides) > 0 /\ slides[1].status = "generating_image"

\* The stages in execution on the slide id: those the scheduler dispatched
\* and the operations the user started, each with its call outstanding.
Executions(id) ==
  LET running == { t \in Pending :
                     /\ t.id = id
                     /\ t.pc \in {"analyze", "visual", "video", "deep", "edit"} }
  IN BagCardinality([t \in running |-> tasks[t]])

\* C29: no slide has two stage executions in progress at once, be they the
\* scheduler's or the user's.
C29_OneExecutionPerSlide == \A id \in Ids : Executions(id) <= 1

\* The stages a slide rests in.
Settled == {"analyzed", "complete", "error"}

\* The step in which the call of the stage or operation t has ended and t
\* makes no further call for the slide's content: the analysis, the deep
\* re-analysis or the area edit has returned or raised; the image or the
\* video was not produced; or its upload has ended.
CallEnded(t) ==
  \/ \E r \in AnalysisCallResults, parsed \in ParsedResponses,
        citations \in CitationLists : AnalysisEnds(t, r, parsed, citations)
  \/ \E r \in AnalysisCallResults, parsed \in ParsedResponses :
        DeepEnds(t, r, parsed)
  \/ \E r \in VisualCallResults, bgUrl \in {None, Some(LocalImage)} :
        (~r.ok \/ bgUrl = None) /\ VisualEnds(t, r, bgUrl)
  \/ \E outcome \in VideoOutcomes \ {"url"} : VideoEnds(t, outcome)
  \/ \E outcome \in UploadOutcomes : UploadEnds(t, outcome)
  \/ \E r \in AnalysisCallResults, updates \in AreaResponses :
        AreaEnds(t, r, updates)

\* C30: after the step in which the call of a stage or of an operation on a
\* slide has ended, the slide is in analyzed, complete or error.
C30_NoStageLeftInProgress ==
  [][\A t \in Pending :
       (CallEnded(t) /\ FindIndex(slides', t.id) # 0) =>
         StageOf(slides', t.id) \in Settled]_vars

\* The user can start no operation any more.
NoFurtherUserAction == userOps = OpsBound

\* C31: the step in which a deep re-analysis returns sets the slide to
\* analyzed, whatever its stage was; and an analyzed slide, when the user
\* starts nothing further, comes to complete or error through the scheduler.
C31_PollerSelfHeals ==
  /\ [][\A t \in Pending, r \in AnalysisCallResults, parsed \in ParsedResponses :
          (r.ok /\ DeepEnds(t, r, parsed)) => StageOf(slides', t.id) = "analyzed"]_vars
  /\ \A i \in 1..EditorPages :
        (Len(slides) >= i /\ slides[i].status = "analyzed" /\ NoFurtherUserAction)
          ~> (Len(slides) >= i /\ slides[i].status \in {"complete", "error"})

\* A slide that was in error has been re-analysed and then brought to
\* complete by the scheduler.
C31_HealedFromError ==
  /\ Len(slides) = 1
  /\ slides[1].status = "complete"
  /\ slides[1].error # None
  /\ slides[1].analysis # None /\ slides[1].groundingSources = None
  /\ slides[1].enhancedImage # None
  /\ tasks = EmptyBag

\* The stages of a slide that is not at rest.
Unfinished == Stages \ {"complete", "error"}

\* C32: every slide restored from the project record in a stage other than
\* complete and error comes to complete or error through the scheduler.
C32_RestoredWorkFinishes ==
  \A i \in 1..ReloadPages :
    (mode = "EDITOR" /\ Len(slides) >= i /\ slides[i].status \in Unfinished)
      ~> (Len(slides) >= i /\ slides[i].status \in {"complete", "error"})

\* C33: no step takes the enhancedImage of a slide away: a slide that has
\* one has one after every step, the former or a new one.
C33_ImageNeverLost ==
  [][\A i \in 1..Len(slides) :
       (Len(slides') >= i /\ slides'[i].id = slides[i].id
                          /\ slides[i].enhancedImage # None) =>
         slides'[i].enhancedImage # None]_vars

\* C34: activeRequests is the number of ids in processingSlideIds and is
\* never negative, also when the collection is reset or replaced while
\* advancements are in flight.
C34_CounterIsSetSize ==
  /\ activeRequests = Cardinality(processingSlideIds)
  /\ activeRequests >= 0

\* An advancement is in flight for a slide of a collection that has been
\* reset and replaced by another.
C34_InFlightAcrossReset ==
  /\ activeRequests > 0
  /\ Len(slides) > 0
  /\ \E id \in processingSlideIds : FindIndex(slides, id) = 0

\* The step leaves every slide but that of the given id as it was.
OnlyChanges(id) ==
  \A i \in 1..Len(slides) :
    slides[i].id # id => (Len(slides') >= i /\ slides'[i] = slides[i])

\* C35: a step of an advancement the scheduler dispatched for a slide, be it
\* the dispatch or the return of one of its calls, changes no other slide of
\* the collection, also when the collection has been replaced meanwhile.
C35_WritesOnlyOwnSlide ==
  /\ [][\A id \in Ids : (Tick /\ Dispatches(id)) => OnlyChanges(id)]_vars
  /\ [][\A t \in Pending :
          (IsScheduled(t) /\ Returns({t}, QueueAnswer)) => OnlyChanges(t.id)]_vars

\* The tick's step dispatches processSlideAnalysis for the slide `id`.
DispatchesAnalysis(id) ==
  \E t \in BagToSet(tasks') :
    /\ t.kind = "analysis" /\ t.id = id
    /\ (t \in DOMAIN tasks => tasks'[t] > tasks[t])

\* The tick reads, for a slide that is not in flight and whose analysis has
\* written its result, a stage that is not older than that result.
ReadsWrittenStage(i) ==
  (/\ Len(slides) >= i
   /\ slidesRef[i].id = slides[i].id
   /\ slidesRef[i].id \notin processingSlideIds
   /\ slides[i].status \in {"analyzed", "error"})
    => slidesRef[i].status \notin {"pending", "analyzing"}

\* C36: the scheduler dispatches the analysis of a slide only while the slide's
\* stage in the collection is pending, so never a second time, and a tick that
\* runs after the in-flight marker of a slide is cleared reads in slidesRef
\* the stage the finished analysis wrote (analyzed or error), not an older one.
C36_NoSecondAnalysis ==
  /\ [][\A id \in Ids :
          (Tick /\ DispatchesAnalysis(id)) => StageOf(slides, id) = "pending"]_vars
  /\ [][Tick => \A i \in 1..Len(slidesRef) : ReadsWrittenStage(i)]_vars

\* The field f of the analysis C is newer than the slide onEditArea read at
\* the click: that slide had no analysis, no such field, or another value.
NewerThanSnapshot(t, C, f) ==
  \/ t.snap[1].analysis = None
  \/ f \notin DOMAIN t.snap[1].analysis[1]
  \/ t.snap[1].analysis[1][f] # C[f]

\* C37: when performAreaEdit returns the partial record R for a slide whose
\* analysis is then C, every field of C that another operation changed while
\* the call was in flight and that R does not hold keeps its newer value.
C37_AreaEditKeepsNewerFields ==
  [][\A t \in Pending, r \in AnalysisCallResults, R \in AreaResponses :
       (/\ AreaEnds(t, r, R)
        /\ r.ok
        /\ SlideOf(slides, t.id).analysis # None) =>
          LET C == SlideOf(slides, t.id).analysis[1]
              after == SlideOf(slides', t.id).analysis
          IN \A f \in (DOMAIN C) \ (DOMAIN R) :
               NewerThanSnapshot(t, C, f) =>
                 /\ after # None
                 /\ f \in DOMAIN after[1]
                 /\ after[1][f] = C[f]]_vars

\* The number of advancements the step dispatches.
DispatchedNow == BagCardinality(Dispatched)' - BagCardinality(Dispatched)

C39_DispatchOnlyInEditor ==
  /\ [][\A id \in Ids : Dispatches(id) => mode = "EDITOR"]_vars
  /\ [][\A id \in Ids :
          (Ends(id) /\ mode # "EDITOR") =>
            /\ id \notin processingSlideIds'
            /\ activeRequests' = activeRequests - 1]_vars


====
